---- MODULE Spec2Model ----
(***************************************************************************)
(* A model of the TFMX playback engine (TFMXPlayer.ts) and of the part of  *)
(* the audio layer that drives it (TFMXAudio.ts).                          *)
(*                                                                         *)
(* An instruction word is kept as its four big-endian bytes <<b0,b1,b2,b3>>*)
(* (what the UNI helper extracts), so that no 32-bit unsigned value has to *)
(* be held in one integer.  The engine state is one record per object of   *)
(* the player (mdb, pdb, cdb, hdb, idb) plus the public scalar fields.     *)
(*                                                                         *)
(* Not modelled: the IMS modulator/synthesis fields and the IMS buffer     *)
(* (they feed only the synthesized sample bytes), jiffies and the          *)
(* channel-owner bookkeeping of the display (written, never read by the    *)
(* engine).  ImsDeltaLen is kept because doMacro and doEffects branch on   *)
(* it.                                                                     *)
(***************************************************************************)
EXTENDS Integers, Sequences, FiniteSets, TLC

VARIABLES
  data,       \* the loaded module (TFMXData), immutable after load
  cfg,        \* host toggles: gemx, dangerFreakHack, trackMuted, outRate
  mdb,        \* master block
  pdb,        \* pattern block with the eight track cursors
  cdb,        \* sixteen channel controllers
  hdb,        \* eight hardware channels
  idb,        \* cue / signal register
  multimode,  \* 8-voice flag
  eClocks,    \* tempo register
  loops,      \* user loop count
  thrown,     \* some operation so far ended by a JavaScript exception
  hung,       \* the running operation entered a loop it never leaves
  lastOp,     \* name of the last operation performed
  wasOff,     \* PlayerEnable was 0 when the last operation began
  nticks,     \* number of ticks performed so far (model bound)
  nstarts,    \* number of start_song calls so far (model bound)
  eRem,       \* TFMXAudio: remainder of the block length computation
  blockDone,  \* TFMXAudio: mixed samples not yet delivered
  paused,     \* TFMXAudio: _paused (no callback is connected while TRUE)
  cutoff,     \* the last operation was cut short by the bound MaxInstr
  efxPer,     \* per controller: the effect block that stored CurPeriod in the
              \* controller's last doMacro ("none", "vibrato", "portamento")
  ref,        \* reference engine: same module and operations, nothing muted
  macroFetchOut, \* the last operation fetched a macro instruction at an
              \* index outside editbuf
  wrap,       \* position and track cursors right after the last End that the
              \* last operation executed at the song's last position
  dispatch,   \* the calls of doAllMacros, doMacro, doEffects, doTracks and
              \* doTrack in the last tick of the last operation, in their order
  loopRows,   \* the loop meta-rows executed since the last startSong (n), how
              \* many of them jumped (jumps), whether one disabled the player (stop)
  steps,      \* the passes of getTrackStep's loop in the last operation
  before,     \* CurrPos, SpeedCnt and Prescale when the last operation began
  gates,      \* per doMacro of the last tick of the last operation: the
              \* controller, MacroRun and MacroWait as doMacro read them,
              \* MacroWait after the decrement, whether runMacro was called,
              \* EfxRun before and after doEffects, and whether doEffects
              \* left everything but EfxRun as it was (idle)
  hostLoops,  \* the value the host last assigned to loops (n), and whether a
              \* song had been started by then (started)
  route,      \* TFMXAudio: the channels the last burst of the last operation
              \* mixed into the left and into the right buffer
  burst,      \* TFMXAudio: totals of the bursts mixed since play
  mdat,       \* TFMXParser: the MDAT file handed to parseTFMX
  tables      \* TFMXParser: the pointer tables parseTFMX returned for mdat

vars == <<data, cfg, mdb, pdb, cdb, hdb, idb, multimode, eClocks, loops,
          thrown, hung, lastOp, wasOff, nticks, nstarts, eRem, blockDone,
          paused, cutoff, efxPer, ref, macroFetchOut, wrap, route, dispatch, loopRows, hostLoops,
          steps, before, gates, burst, mdat, tables>>

-----------------------------------------------------------------------------
(* Model bounds *)

MaxTicks == 6
MaxStarts == 2
MaxInstr == 24
\* number of pointer table entries of the files given to the parser alone
TableLen == 4
\* number of ticks the fade-out alone is followed for
FadeTicks == 130
\* largest period doMacro alone is applied to
MaxPeriod == 2047

-----------------------------------------------------------------------------
(* types.ts: UNI and the sign helpers *)

B0(x) == x[1]
B1(x) == x[2]
B2(x) == x[3]
B3(x) == x[4]
W0(x) == x[1] * 256 + x[2]
W1(x) == x[3] * 256 + x[4]
\* x.l once b0 has been cleared (the macro interpreter clears it after decoding)
Low24(x) == x[2] * 65536 + x[3] * 256 + x[4]

toS8(v) == LET w == v % 256 IN IF w > 127 THEN w - 256 ELSE w
toS16(v) == LET w == v % 65536 IN IF w > 32767 THEN w - 65536 ELSE w

\* JavaScript's | on two non-negative integers
RECURSIVE BitOr(_, _)
BitOr(a, b) ==
  IF a = 0 THEN b
  ELSE IF b = 0 THEN a
  ELSE (IF a % 2 = 1 \/ b % 2 = 1 THEN 1 ELSE 0) + 2 * BitOr(a \div 2, b \div 2)

\* JavaScript's x << 14 on a 32-bit signed integer (x >= 0)
Shl14(x) ==
  LET y == x % 262144
  IN IF y >= 131072 THEN (y - 262144) * 16384 ELSE y * 16384

ZeroWord == <<0, 0, 0, 0>>
SentinelWord == <<255, 255, 255, 255>>

-----------------------------------------------------------------------------
(* constants.ts *)

NOTEVALS ==
  << 1710, 1614, 1524, 1438, 1357, 1281, 1209, 1141, 1077, 1017, 960, 908,
     856, 810, 764, 720, 680, 642, 606, 571, 539, 509, 480, 454,
     428, 404, 381, 360, 340, 320, 303, 286, 270, 254, 240, 227,
     214, 202, 191, 180, 170, 160, 151, 143, 135, 127, 120, 113,
     214, 202, 191, 180, 170, 160, 151, 143, 135, 127, 120, 113,
     214, 202, 191, 180 >>

NoteVal(n) == NOTEVALS[n + 1]

DEFAULT_ECLOCKS == 14318

-----------------------------------------------------------------------------
(* Module access *)

\* index is one of the words of editbuf
InWords(D, index) == index \in 0..(Len(D.editbuf) - 1)

ReadEditbuf(D, index) ==
  IF index < 0 \/ index >= Len(D.editbuf) THEN ZeroWord ELSE D.editbuf[index + 1]

ReadTrackstepWord(D, wordIndex) ==
  LET val == ReadEditbuf(D, D.trackstart + (wordIndex \div 2))
  IN IF wordIndex % 2 = 1 THEN W1(val) ELSE W0(val)

\* this.data.macros[n] || 0
MacroAt(D, n) == IF n < Len(D.macros) THEN D.macros[n + 1] ELSE 0
\* this.data.patterns[n] || 0
PatternAt(D, n) == IF n < Len(D.patterns) THEN D.patterns[n + 1] ELSE 0

-----------------------------------------------------------------------------
(* Construction: createMdb, createPdb, createPdblk, createHdb, createCdb *)

createMdb ==
  [ PlayerEnable |-> 0, EndFlag |-> 0, CurrSong |-> 0, SpeedCnt |-> 0,
    CIASave |-> 0, PlayPattFlag |-> 0, MasterVol |-> 64, FadeDest |-> 0,
    FadeTime |-> 0, FadeReset |-> 0, FadeSlope |-> 0, TrackLoop |-> -1 ]

createPdb ==
  [ PAddr |-> 0, PNum |-> 255, PXpose |-> 0, PLoop |-> 65535, PStep |-> 0,
    PWait |-> 0, PRoAddr |-> 0, PRoStep |-> 0 ]

createPdblk ==
  [ FirstPos |-> 0, LastPos |-> 0, CurrPos |-> 0, Prescale |-> 0,
    p |-> [i \in 0..7 |-> createPdb] ]

createHdb(idx) ==
  [ pos |-> 0, delta |-> 0, slen |-> 2, SampleLength |-> 0, sbeg |-> 0,
    SampleStart |-> 0, vol |-> 0, mode |-> 0, loop |-> "off", cIdx |-> idx ]

createCdb(idx) ==
  [ MacroRun |-> 0, EfxRun |-> 0, NewStyleMacro |-> 255, PrevNote |-> 0,
    CurrNote |-> 0, Velocity |-> 0, Finetune |-> 0, KeyUp |-> 0,
    ReallyWait |-> 0, MacroPtr |-> 0, MacroStep |-> 0, MacroWait |-> 0,
    MacroNum |-> 0, Loop |-> -1, CurAddr |-> 0, SaveAddr |-> 0,
    CurrLength |-> 0, SaveLen |-> 2, WaitDMACount |-> 0,
    EnvReset |-> 0, EnvTime |-> 0, EnvRate |-> 0, EnvEndvol |-> 0,
    CurVol |-> 0, VibOffset |-> 0, VibWidth |-> 0, VibFlag |-> 0,
    VibReset |-> 0, VibTime |-> 0, PortaReset |-> 0, PortaTime |-> 0,
    CurPeriod |-> 0, DestPeriod |-> 0, PortaPer |-> 0, PortaRate |-> 0,
    AddBeginTime |-> 0, AddBeginReset |-> 0, ReturnPtr |-> 0,
    ReturnStep |-> 0, AddBegin |-> 0, SfxFlag |-> 0, SfxPriority |-> 0,
    SfxLockTime |-> -1, SfxCode |-> 0, ImsDeltaLen |-> 0,
    AddBeginCount1 |-> 0, AddBeginCount2 |-> 0, SkipFlag |-> 0,
    hwIdx |-> idx ]

\* no End has been executed at the song's last position
NoWrap == [hit |-> FALSE, pos |-> 0, p |-> <<>>]

\* the call of name with index i is entered in the tick's dispatch log
Called(S, name, i) == [S EXCEPT !.dispatch = Append(@, <<name, i>>)]

\* no loop meta-row has been executed
NoLoopRows == [n |-> 0, jumps |-> 0, stop |-> FALSE]

\* no burst has been mixed
NoRoute == [mixed |-> FALSE, multi |-> FALSE, L |-> {}, R |-> {}]

\* the value of F at e, with e worked out once
Bind(e, F(_)) == CHOOSE out \in {F(v) : v \in {e}} : TRUE

\* The engine as left by the constructor (field initialisers and initStructs)
NewEngine ==
  [ mdb |-> createMdb, pdb |-> createPdblk,
    cdb |-> [i \in 0..15 |-> createCdb(i)],
    hdb |-> [i \in 0..7 |-> createHdb(i)],
    idb |-> [i \in 0..3 |-> 0],
    multimode |-> 0, eClocks |-> DEFAULT_ECLOCKS, loops |-> 0,
    exc |-> FALSE, hang |-> FALSE, cut |-> FALSE, fuel |-> 0,
    efxPer |-> [i \in 0..15 |-> "none"], fetchOut |-> FALSE, wrap |-> NoWrap, route |-> NoRoute,
    dispatch |-> <<>>, loopRows |-> NoLoopRows, steps |-> <<>>,
    gates |-> <<>> ]

-----------------------------------------------------------------------------
(* NotePort *)

\* a lock that holds nothing back
SfxNeverLocked(c) == FALSE

\* if (c.SfxFlag) return
SfxLocked(c) == c.SfxFlag # 0

NotePort(D, G, S, x) ==
  LET ch == B2(x) % (IF S.multimode # 0 THEN 8 ELSE 4)
      c == S.cdb[ch]
  IN
  IF B0(x) = 252 THEN
    [S EXCEPT !.cdb[ch] = [c EXCEPT !.SfxFlag = B1(x), !.SfxLockTime = B3(x)]]
  ELSE IF SfxLocked(c) THEN S
  ELSE IF B0(x) < 192 THEN
    [S EXCEPT !.cdb[ch] =
      [c EXCEPT !.Finetune = IF G.dangerFreakHack = 0 THEN B3(x) ELSE 0,
                !.Velocity = (B2(x) \div 16) % 16,
                !.PrevNote = c.CurrNote,
                !.CurrNote = B0(x),
                !.ReallyWait = 1,
                !.NewStyleMacro = 255,
                !.MacroNum = B1(x),
                !.MacroPtr = MacroAt(D, B1(x)),
                !.MacroStep = 0,
                !.EfxRun = 0,
                !.MacroWait = 0,
                !.KeyUp = 1,
                !.Loop = -1,
                !.MacroRun = -1]]
  ELSE IF B0(x) < 240 THEN
    [S EXCEPT !.cdb[ch] =
      [c EXCEPT !.PortaReset = B1(x),
                !.PortaTime = 1,
                !.PortaPer = IF c.PortaRate = 0 THEN c.DestPeriod ELSE c.PortaPer,
                !.PortaRate = B3(x),
                !.CurrNote = B0(x) % 64,
                !.DestPeriod = NoteVal(B0(x) % 64)]]
  ELSE IF B0(x) = 247 THEN
    [S EXCEPT !.cdb[ch] =
      [c EXCEPT !.EnvRate = B1(x),
                !.EnvReset = (B2(x) \div 16) + 1,
                !.EnvTime = (B2(x) \div 16) + 1,
                !.EnvEndvol = B3(x)]]
  ELSE IF B0(x) = 246 THEN
    [S EXCEPT !.cdb[ch] =
      [c EXCEPT !.VibReset = (B1(x) \div 2) * 2,
                !.VibTime = B1(x) \div 2,
                !.VibWidth = toS8(B3(x)),
                !.VibFlag = 1,
                !.VibOffset = 0]]
  ELSE IF B0(x) = 245 THEN
    [S EXCEPT !.cdb[ch] = [c EXCEPT !.KeyUp = 0]]
  ELSE S

-----------------------------------------------------------------------------
(* RunMacro: one instruction of the fetch-decode-execute loop.  The result  *)
(* is the state after the instruction and whether the interpreter returns   *)
(* (ret) or loops back to fetch the next one.                               *)

Go(S) == [s |-> S, ret |-> FALSE]
Ret(S) == [s |-> S, ret |-> TRUE]

\* MAYBEWAIT
MaybeWait(S, cc) ==
  IF S.cdb[cc].NewStyleMacro = 0
  THEN Go([S EXCEPT !.cdb[cc].NewStyleMacro = 255])
  ELSE Ret(S)

\* a DMAoff that sets bit 3 instead of bit 2
ModeOr8(m) == IF (m \div 8) % 2 = 1 THEN m ELSE m + 8
\* hw.mode |= 4
ModeOr4(m) == IF (m \div 4) % 2 = 1 THEN m ELSE m + 4
\* hw.mode |= 2
ModeOr2(m) == IF (m \div 2) % 2 = 1 THEN m ELSE m + 2

\* case 0x13, also the tail of case 0x00
MacroDMAoff(S, cc, x) ==
  LET h == S.cdb[cc].hwIdx
      hw == S.hdb[h]
  IN IF B1(x) = 0
     THEN Go([S EXCEPT !.hdb[h] =
                [hw EXCEPT !.loop = "off", !.mode = 0,
                           !.slen = IF S.cdb[cc].NewStyleMacro # 0 THEN 0 ELSE hw.slen]])
     ELSE Ret([S EXCEPT !.hdb[h] = [hw EXCEPT !.loop = "off", !.mode = ModeOr4(hw.mode)],
                        !.cdb[cc].NewStyleMacro = 0])

\* case 0x00: reset the effects, the Gem'X volume fix, then DMAoff
MacroDMAoffReset(G, S, cc, x) ==
  LET c == S.cdb[cc]
      c1 == [c EXCEPT !.EnvReset = 0, !.VibReset = 0, !.PortaRate = 0,
                      !.AddBeginTime = 0, !.ImsDeltaLen = 0]
      c2 == IF G.gemx # 0
            THEN [c1 EXCEPT !.CurVol = IF B2(x) # 0 THEN B3(x)
                                       ELSE B3(x) + c.Velocity * 3]
            ELSE c1
  IN MacroDMAoff([S EXCEPT !.cdb[cc] = c2], cc, x)

\* case 0x01
MacroDMAon(G, S, cc, x) ==
  LET c == S.cdb[cc]
      h == c.hwIdx
      hw == S.hdb[h]
      len == IF c.SaveLen # 0 THEN c.SaveLen * 2 ELSE 131072
  IN Go([S EXCEPT
       !.cdb[cc].EfxRun = B1(x),
       !.hdb[h] = IF c.NewStyleMacro = 0 \/ G.dangerFreakHack # 0
                  THEN [hw EXCEPT !.mode = 3, !.SampleStart = c.SaveAddr,
                                  !.SampleLength = len, !.sbeg = c.SaveAddr,
                                  !.slen = len, !.pos = 0]
                  ELSE [hw EXCEPT !.mode = 1]])

\* case 0x05, also the tail of case 0x10
MacroLoop(S, cc, x) ==
  LET c == S.cdb[cc]
  IN IF c.Loop = 0
     THEN Go([S EXCEPT !.cdb[cc].Loop = -1])
     ELSE Go([S EXCEPT !.cdb[cc] =
                [c EXCEPT !.Loop = IF c.Loop - 1 < 0 THEN B1(x) - 1 ELSE c.Loop - 1,
                          !.MacroStep = W1(x)]])

\* cases 0x1F, 0x08, 0x09: the period of note number n with finetune and detune
MacroSetNote(S, cc, x, n) ==
  LET c == S.cdb[cc]
      noteA == (NoteVal(n % 64) * (256 + c.Finetune + toS8(B3(x)))) \div 256
  IN MaybeWait([S EXCEPT !.cdb[cc] =
       [c EXCEPT !.DestPeriod = noteA,
                 !.CurPeriod = IF c.PortaRate = 0 THEN noteA ELSE c.CurPeriod]], cc)

\* case 0x14
MacroWaitKeyUp(S, cc, x) ==
  LET c == S.cdb[cc]
      l0 == IF c.KeyUp = 0 THEN 0 ELSE c.Loop
  IN IF l0 = 0
     THEN Go([S EXCEPT !.cdb[cc].Loop = -1])
     ELSE Ret([S EXCEPT !.cdb[cc] =
                [c EXCEPT !.Loop = IF l0 = -1 THEN B3(x) - 1 ELSE l0 - 1,
                          !.MacroStep = c.MacroStep - 1]])

\* case 0x06, also the tail of case 0x15
MacroCont(D, S, cc, x) ==
  Go([S EXCEPT !.cdb[cc] =
       [S.cdb[cc] EXCEPT !.MacroNum = B1(x), !.MacroPtr = MacroAt(D, B1(x)),
                         !.MacroStep = W1(x), !.Loop = 65535]])

\* The switch of runMacro on opcode a; x is the word with b0 cleared and the
\* controller's MacroStep is already incremented.
MacroExec(D, G, S, cc, a, x) ==
  LET c == S.cdb[cc]
      h == c.hwIdx
      hw == S.hdb[h]
  IN
  CASE a = 0 -> MacroDMAoffReset(G, S, cc, x)
    [] a = 19 -> MacroDMAoff(S, cc, x)
    [] a = 1 -> MacroDMAon(G, S, cc, x)
    [] a = 2 ->
         Go([S EXCEPT !.cdb[cc] = [c EXCEPT !.AddBeginCount1 = 0, !.AddBeginTime = 0,
                                            !.SaveAddr = Low24(x), !.CurAddr = Low24(x)]])
    [] a = 17 ->
         Go([S EXCEPT !.cdb[cc] =
              [c EXCEPT !.AddBeginCount1 = B1(x), !.AddBeginCount2 = B1(x),
                        !.AddBeginTime = B1(x), !.AddBeginReset = B1(x),
                        !.AddBegin = toS16(W1(x)),
                        !.SaveAddr = c.CurAddr + toS16(W1(x)),
                        !.CurAddr = c.CurAddr + toS16(W1(x))]])
    [] a = 3 ->
         Go([S EXCEPT !.cdb[cc] = [c EXCEPT !.SaveLen = W1(x), !.CurrLength = W1(x)]])
    [] a = 18 ->
         Go([S EXCEPT !.cdb[cc] =
              [c EXCEPT !.CurrLength = (c.CurrLength + W1(x)) % 65536,
                        !.SaveLen = (c.CurrLength + W1(x)) % 65536]])
    [] a = 4 ->
         IF B1(x) % 2 = 1 /\ c.ReallyWait # 0
         THEN Ret([S EXCEPT !.cdb[cc].ReallyWait = c.ReallyWait + 1])
         ELSE MaybeWait([S EXCEPT !.cdb[cc] =
                [c EXCEPT !.ReallyWait = IF B1(x) % 2 = 1 THEN c.ReallyWait + 1
                                         ELSE c.ReallyWait,
                          !.MacroWait = W1(x)]], cc)
    [] a = 26 ->
         MaybeWait([S EXCEPT !.hdb[h] = [hw EXCEPT !.loop = "on", !.cIdx = cc],
                             !.cdb[cc] = [c EXCEPT !.WaitDMACount = W1(x),
                                                   !.MacroRun = 0]], cc)
    [] a = 28 ->
         Go(IF c.CurrNote > B1(x) THEN [S EXCEPT !.cdb[cc].MacroStep = W1(x)] ELSE S)
    [] a = 29 ->
         Go(IF c.CurVol > B1(x) THEN [S EXCEPT !.cdb[cc].MacroStep = W1(x)] ELSE S)
    [] a = 16 -> IF c.KeyUp = 0 THEN Go(S) ELSE MacroLoop(S, cc, x)
    [] a = 5 -> MacroLoop(S, cc, x)
    [] a = 7 -> Ret([S EXCEPT !.cdb[cc].MacroRun = 0])
    [] a = 13 ->
         IF B2(x) # 254
         THEN LET tempVol == c.Velocity * 3 + toS8(B3(x))
              IN Go([S EXCEPT !.cdb[cc].CurVol =
                       IF tempVol > 64 THEN 64 ELSE IF tempVol < 0 THEN 0 ELSE tempVol])
         ELSE Go(S)
    [] a = 14 ->
         IF B2(x) # 254 THEN Go([S EXCEPT !.cdb[cc].CurVol = B3(x)]) ELSE Go(S)
    [] a = 33 ->
         Go(NotePort(D, G, S,
              <<c.CurrNote, B1(x), BitOr(B2(x), c.Velocity * 16) % 256, B3(x)>>))
    [] a = 31 -> MacroSetNote(S, cc, x, c.PrevNote + B1(x))
    [] a = 8 -> MacroSetNote(S, cc, x, c.CurrNote + B1(x))
    [] a = 9 -> MacroSetNote(S, cc, x, B1(x))
    [] a = 23 ->
         Go([S EXCEPT !.cdb[cc] =
              [c EXCEPT !.DestPeriod = W1(x),
                        !.CurPeriod = IF c.PortaRate = 0 THEN W1(x) ELSE c.CurPeriod]])
    [] a = 11 ->
         Go([S EXCEPT !.cdb[cc] =
              [c EXCEPT !.PortaReset = B1(x), !.PortaTime = 1,
                        !.PortaPer = IF c.PortaRate = 0 THEN c.DestPeriod ELSE c.PortaPer,
                        !.PortaRate = toS16(W1(x))]])
    [] a = 12 ->
         Go([S EXCEPT !.cdb[cc] =
              [c EXCEPT !.VibReset = B1(x), !.VibTime = B1(x) \div 2,
                        !.VibWidth = toS8(B3(x)), !.VibFlag = 1,
                        !.CurPeriod = IF c.PortaRate = 0 THEN c.DestPeriod ELSE c.CurPeriod,
                        !.VibOffset = IF c.PortaRate = 0 THEN 0 ELSE c.VibOffset]])
    [] a = 15 ->
         Go([S EXCEPT !.cdb[cc] =
              [c EXCEPT !.EnvReset = B2(x), !.EnvTime = B2(x),
                        !.EnvEndvol = toS8(B3(x)), !.EnvRate = B1(x)]])
    [] a = 10 ->
         Go([S EXCEPT !.cdb[cc] =
              [c EXCEPT !.ImsDeltaLen = 0, !.AddBeginCount1 = 0, !.EnvReset = 0,
                        !.VibReset = 0, !.PortaRate = 0, !.AddBeginTime = 0]])
    [] a = 20 -> MacroWaitKeyUp(S, cc, x)
    [] a = 21 ->
         MacroCont(D, [S EXCEPT !.cdb[cc] = [c EXCEPT !.ReturnPtr = c.MacroPtr,
                                                      !.ReturnStep = c.MacroStep]], cc, x)
    [] a = 6 -> MacroCont(D, S, cc, x)
    [] a = 22 ->
         Go([S EXCEPT !.cdb[cc] = [c EXCEPT !.MacroPtr = c.ReturnPtr,
                                            !.MacroStep = c.ReturnStep]])
    [] a = 24 ->
         LET offset == (W1(x) \div 2) * 2
         IN Go([S EXCEPT !.cdb[cc] =
                 [c EXCEPT !.SaveAddr = c.SaveAddr + offset,
                           !.CurAddr = c.SaveAddr + offset,
                           !.SaveLen = c.SaveLen - (offset \div 2),
                           !.CurrLength = c.SaveLen - (offset \div 2)]])
    [] a = 25 ->
         Go([S EXCEPT !.cdb[cc] = [c EXCEPT !.AddBeginTime = 0, !.SaveAddr = 0,
                                            !.CurAddr = 0, !.SaveLen = 1,
                                            !.CurrLength = 1]])
    [] a = 32 -> Go([S EXCEPT !.idb[B1(x) % 4] = W1(x)])
    [] a = 34 ->
         Go([S EXCEPT !.cdb[cc] = [c EXCEPT !.AddBeginCount1 = 0, !.CurAddr = Low24(x),
                                            !.SaveAddr = Low24(x)],
                      !.hdb[h] = [hw EXCEPT !.SampleStart = cc * 512,
                                            !.sbeg = cc * 512, !.pos = 0]])
    [] a = 35 ->
         LET len == IF B1(x) = 0 THEN 256 ELSE B1(x)
         IN Go([S EXCEPT !.hdb[h] = [hw EXCEPT !.SampleLength = (len \div 2) * 2,
                                               !.slen = (len \div 2) * 2],
                         !.cdb[cc] = [c EXCEPT !.ImsDeltaLen = (len - 1) % 256,
                                               !.SaveLen = W1(x),
                                               !.CurrLength = W1(x)]])
    [] a = 41 -> Go([S EXCEPT !.cdb[cc].ImsDeltaLen = 0])
    [] a = 45 \/ a = 47 -> Go([S EXCEPT !.cdb[cc].MacroStep = c.MacroStep + 1])
    [] a = 48 ->
         IF c.SkipFlag = 0 THEN Go([S EXCEPT !.cdb[cc].SkipFlag = 255])
         ELSE Go([S EXCEPT !.cdb[cc].MacroStep = W1(x)])
    [] a = 49 -> Go(NotePort(D, G, S, <<245, 0, B2(x), 0>>))
    [] OTHER -> Go(S)

\* The part of a state the macro loop's next iterations depend on.  A fetch
\* index beyond the end of editbuf reads zero wherever it is, and the zero
\* instruction (DMAoff+Reset) never reads MacroStep, so a step beyond the end
\* is recorded as the first index beyond the end.
MacroKey(D, S, cc) ==
  LET c == S.cdb[cc]
  IN IF c.MacroPtr + c.MacroStep > Len(D.editbuf)
     THEN [S EXCEPT !.cdb[cc].MacroStep = Len(D.editbuf) - c.MacroPtr, !.fuel = 0]
     ELSE [S EXCEPT !.fuel = 0]

\* The while (true) loop of runMacro.  seen holds the keys of the states at
\* the earlier fetches of this call: fetching again in one of them means the
\* loop repeats for ever (hang).  cut marks a call the model stopped after
\* MaxInstr instructions without knowing whether it returns.
RECURSIVE MacroLoopFrom(_, _, _, _, _)
MacroLoopFrom(D, G, S, cc, seen) ==
  LET key == MacroKey(D, S, cc)
      c == S.cdb[cc]
      idx == c.MacroPtr + c.MacroStep
      raw == ReadEditbuf(D, idx)
  IN IF key \in seen THEN [S EXCEPT !.hang = TRUE]
     ELSE IF S.fuel >= MaxInstr THEN [S EXCEPT !.cut = TRUE]
     ELSE Bind(MacroExec(D, G, [S EXCEPT !.cdb[cc].MacroStep = c.MacroStep + 1,
                                         !.fuel = S.fuel + 1,
                                         !.fetchOut = S.fetchOut \/ ~InWords(D, idx)],
                         cc, B0(raw), raw),
               LAMBDA r : IF r.ret THEN r.s
                          ELSE MacroLoopFrom(D, G, r.s, cc, seen \cup {key}))

RunMacro(D, G, S, cc) ==
  MacroLoopFrom(D, G, [S EXCEPT !.cdb[cc].MacroWait = 0,
                                !.gates[Len(S.gates)].ran = TRUE], cc, {})

-----------------------------------------------------------------------------
(* DoEffects *)

\* JavaScript's v >>> 11 for |v| < 2^32
Ushr11(v) == IF v >= 0 THEN v \div 2048 ELSE (v \div 2048) + 2097152

\* the AddBegin vibrato block
EfxAddBegin(S, cc) ==
  LET c == S.cdb[cc]
      h == c.hwIdx
      addr == c.CurAddr + c.AddBegin
      cnt == c.AddBeginCount1 - 1
  IN IF c.AddBeginCount1 = 0 THEN S
     ELSE [S EXCEPT
            !.cdb[cc] = [c EXCEPT !.CurAddr = addr, !.SaveAddr = addr,
                                  !.AddBeginCount1 = IF cnt = 0 THEN c.AddBeginCount2 ELSE cnt,
                                  !.AddBegin = IF cnt = 0 THEN -c.AddBegin ELSE c.AddBegin],
            !.hdb[h] = IF c.ImsDeltaLen # 0 THEN S.hdb[h]
                       ELSE [S.hdb[h] EXCEPT !.SampleStart = addr, !.sbeg = addr]]

\* the vibrato block
EfxVibrato(S, cc) ==
  LET c == S.cdb[cc]
      vibOffset == c.VibOffset + c.VibWidth
      period == IF vibOffset # 0 THEN Ushr11(c.DestPeriod * (2048 + vibOffset))
                ELSE c.DestPeriod
      t == c.VibTime - 1
  IN IF c.VibReset = 0 THEN S
     ELSE [S EXCEPT !.cdb[cc] =
            [c EXCEPT !.VibOffset = vibOffset,
                      !.CurPeriod = IF c.PortaRate = 0 THEN period ELSE c.CurPeriod,
                      !.VibTime = IF t = 0 THEN c.VibReset \div 2 ELSE t,
                      !.VibWidth = IF t = 0 THEN -c.VibWidth ELSE c.VibWidth],
            !.efxPer[cc] = IF c.PortaRate = 0 THEN "vibrato" ELSE S.efxPer[cc]]

\* the portamento block
EfxPortamento(S, cc) ==
  LET c == S.cdb[cc]
      dest == c.DestPeriod
      per == c.PortaPer
      up == (per * (256 + c.PortaRate)) \div 256
      down == ((per * (256 - c.PortaRate)) - 128) \div 256
      hit == \/ per = dest
             \/ per < dest /\ up >= dest
             \/ per > dest /\ down <= dest
      np == IF hit THEN dest ELSE IF per < dest THEN up ELSE down
  IN IF c.PortaRate = 0 THEN S
     ELSE IF c.PortaTime - 1 # 0 THEN [S EXCEPT !.cdb[cc].PortaTime = c.PortaTime - 1]
     ELSE [S EXCEPT !.cdb[cc] =
            [c EXCEPT !.PortaTime = c.PortaReset,
                      !.PortaRate = IF hit THEN 0 ELSE c.PortaRate,
                      !.PortaPer = np % 2048,
                      !.CurPeriod = np % 2048],
            !.efxPer[cc] = "portamento"]

\* the envelope block
EfxEnvelope(S, cc) ==
  LET c == S.cdb[cc]
      endVol == c.EnvEndvol
      cur == c.CurVol
      hit == \/ cur = endVol
             \/ cur > endVol /\ cur - c.EnvRate <= endVol
             \/ cur < endVol /\ cur + c.EnvRate >= endVol
      nv == IF hit THEN endVol
            ELSE IF cur > endVol THEN cur - c.EnvRate ELSE cur + c.EnvRate
  IN IF c.EnvReset = 0 THEN S
     ELSE IF c.EnvTime # 0 THEN [S EXCEPT !.cdb[cc].EnvTime = c.EnvTime - 1]
     ELSE [S EXCEPT !.cdb[cc] =
            [c EXCEPT !.EnvTime = c.EnvReset,
                      !.EnvReset = IF hit THEN 0 ELSE c.EnvReset,
                      !.CurVol = nv]]

\* the master volume fade block
EfxMasterFade(S) ==
  LET m == S.mdb
      vol == m.MasterVol + m.FadeSlope
  IN IF m.FadeSlope = 0 THEN S
     ELSE IF m.FadeTime - 1 # 0 THEN [S EXCEPT !.mdb.FadeTime = m.FadeTime - 1]
     ELSE [S EXCEPT !.mdb = [m EXCEPT !.FadeTime = m.FadeReset,
                                      !.MasterVol = vol,
                                      !.FadeSlope = IF m.FadeDest = vol THEN 0
                                                    ELSE m.FadeSlope]]

DoEffects(S, cc) ==
  LET c == S.cdb[cc]
  IN IF c.EfxRun < 0 THEN S
     ELSE IF c.EfxRun = 0 THEN [S EXCEPT !.cdb[cc].EfxRun = 1]
     ELSE EfxMasterFade(EfxEnvelope(EfxPortamento(EfxVibrato(EfxAddBegin(S, cc), cc), cc), cc))

-----------------------------------------------------------------------------
(* DoMacro, DoAllMacros *)

\* (CurPeriod * outRate) >> 5: the product is exact, >> takes it modulo 2^32
\* as a signed integer.  With P = 32 * pq + r the result is pq modulo 2^27,
\* read as a signed 27-bit integer.
PeriodRate(period, outRate) ==
  LET pq == (period \div 32) * outRate + ((period % 32) * outRate) \div 32
      m == pq % 134217728
  IN IF m >= 67108864 THEN m - 134217728 ELSE m

\* the delta with the divisor CurPeriod * outRate not shifted
PeriodToDeltaNoShift(period, outRate) ==
  IF period = 0 THEN 0 ELSE 1832727040 \div (period * outRate)

\* hw.delta of doMacro: (3579545 << 9) / q is a float division, >>> 0 truncates
\* it and takes it modulo 2^32 (a zero divisor gives Infinity, which >>> 0 turns
\* into 0; a negative quotient t becomes t + 2^32).  A delta of 2^31 or more
\* is held here as delta - 2^32, the same 32 bits read as a signed integer:
\* a negative hw.delta stands for the wrapped value t + 2^32.
PeriodToDelta(period, outRate) ==
  LET q == PeriodRate(period, outRate)
  IN IF period = 0 \/ q = 0 THEN 0
     ELSE IF q > 0 THEN 1832727040 \div q
     ELSE -(1832727040 \div (-q))

\* a countdown that clears the flag one pass later
SfxLockStepLate(c) ==
  IF c.SfxLockTime >= -1 THEN [c EXCEPT !.SfxLockTime = c.SfxLockTime - 1]
  ELSE [c EXCEPT !.SfxFlag = 0, !.SfxPriority = 0]

\* the SFX lock countdown at the head of doMacro (SfxCode is never assigned a
\* non-zero value, so its branch is not taken)
SfxLockStep(c) ==
  IF c.SfxLockTime >= 0 THEN [c EXCEPT !.SfxLockTime = c.SfxLockTime - 1]
  ELSE [c EXCEPT !.SfxFlag = 0, !.SfxPriority = 0]

\* the tail of doMacro: the hardware channel is refreshed from the controller
UpdateHw(G, S, cc) ==
  LET c == S.cdb[cc]
      h == c.hwIdx
      hw == S.hdb[h]
      start == IF c.ImsDeltaLen # 0 THEN cc * 512 ELSE c.SaveAddr
      len == IF c.ImsDeltaLen # 0 THEN c.ImsDeltaLen + 1
             ELSE IF c.SaveLen # 0 THEN c.SaveLen * 2 ELSE 131072
      armed == hw.mode % 4 = 1
  IN [S EXCEPT !.hdb[h] =
       [hw EXCEPT !.delta = PeriodToDelta(c.CurPeriod, G.outRate),
                  !.SampleStart = start,
                  !.SampleLength = len,
                  !.sbeg = IF armed THEN start ELSE hw.sbeg,
                  !.slen = IF armed THEN len ELSE hw.slen,
                  !.vol = ((c.CurVol % 256) * S.mdb.MasterVol) \div 64]]

\* doEffects(c), entered in the tick's log of macro passes
EffectsLogged(S, cc) ==
  Bind(DoEffects(S, cc),
       LAMBDA S3 :
         [S3 EXCEPT !.gates[Len(S.gates)] =
            [@ EXCEPT !.efx = S.cdb[cc].EfxRun,
                      !.efxAfter = S3.cdb[cc].EfxRun,
                      !.idle = /\ [S3.cdb EXCEPT ![cc].EfxRun = S.cdb[cc].EfxRun] = S.cdb
                               /\ S3.mdb = S.mdb /\ S3.hdb = S.hdb]])

\* nRun && !(nWait - 1): the gate on MacroWait as decremented
MacroGateAfter(c) == c.MacroRun # 0 /\ c.MacroWait - 1 = 0

\* nRun && !nWait, on the values read before MacroWait is decremented
MacroGate(c) == c.MacroRun # 0 /\ c.MacroWait = 0

DoMacro(D, G, S, cc) ==
  LET c0 == S.cdb[cc]
      c1 == SfxLockStep(c0)
      S1 == [Called(S, "doMacro", cc)
               EXCEPT !.cdb[cc] = [c1 EXCEPT !.MacroWait = c1.MacroWait - 1],
                      !.efxPer[cc] = "none",
                      !.gates = Append(@, [cc |-> cc, run |-> c1.MacroRun,
                                           wait |-> c1.MacroWait,
                                           waitDec |-> c1.MacroWait - 1,
                                           ran |-> FALSE, efx |-> 0,
                                           efxAfter |-> 0, idle |-> TRUE])]
  IN Bind(IF MacroGate(c1)
          THEN RunMacro(D, G, [S1 EXCEPT !.fuel = 0], cc)
          ELSE S1,
          LAMBDA S2 : IF S2.hang \/ S2.cut THEN S2
                      ELSE UpdateHw(G, EffectsLogged(Called(S2, "doEffects", cc), cc), cc))

\* the four controllers of 4-voice mode, whatever the mode
MacroOrderPlain(S) == <<0, 1, 2, 3>>

\* The controllers in the order doAllMacros serves them
MacroOrder(S) == IF S.multimode # 0 THEN <<0, 1, 2, 4, 5, 6, 7, 3>> ELSE <<0, 1, 2, 3>>

RECURSIVE DoMacrosFrom(_, _, _, _, _)
DoMacrosFrom(D, G, S, order, i) ==
  IF i > Len(order) \/ S.hang \/ S.cut THEN S
  ELSE DoMacrosFrom(D, G, DoMacro(D, G, S, order[i]), order, i + 1)

DoAllMacros(D, G, S) ==
  DoMacrosFrom(D, G, [S EXCEPT !.dispatch = << <<"doAllMacros", S.multimode>> >>,
                               !.gates = <<>>],
               MacroOrder(S), 1)

-----------------------------------------------------------------------------
(* ChannelOff, DoFade *)

\* hdb has eight entries: hdb[c.hwIdx] is undefined for the controllers 8..15
\* and the assignment hw.mode = 0 then raises a TypeError
ChannelOff(S, i) ==
  LET ci == i % 16
      c == S.cdb[ci]
      h == c.hwIdx
  IN IF c.SfxFlag # 0 THEN S
     ELSE IF h \notin DOMAIN S.hdb THEN [S EXCEPT !.exc = TRUE]
     ELSE [S EXCEPT
            !.hdb[h] = [S.hdb[h] EXCEPT !.mode = 0, !.vol = 0, !.loop = "off",
                                        !.cIdx = ci],
            !.cdb[ci] = [c EXCEPT !.AddBeginTime = 0, !.AddBeginReset = 0,
                                  !.MacroRun = 0, !.NewStyleMacro = 255,
                                  !.SaveAddr = 0, !.CurVol = 0, !.SaveLen = 1,
                                  !.CurrLength = 1]]

DoFade(S, sp, dv) ==
  LET m == S.mdb
  IN IF sp = 0 \/ m.MasterVol = sp
     THEN [S EXCEPT !.mdb = [m EXCEPT !.FadeDest = dv, !.FadeTime = sp, !.FadeReset = sp,
                                      !.MasterVol = dv, !.FadeSlope = 0]]
     ELSE [S EXCEPT !.mdb = [m EXCEPT !.FadeDest = dv, !.FadeTime = sp, !.FadeReset = sp,
                                      !.FadeSlope = IF m.MasterVol > dv THEN -1 ELSE 1]]

-----------------------------------------------------------------------------
(* GetTrackStep *)

\* the eight halfwords of trackstep line pos
TrackLine(D, pos) == [i \in 0..7 |-> ReadTrackstepWord(D, pos * 8 + i)]

\* a hold that stores the pattern number alone
HoldRowNumOnly(q, pNum, w) == [q EXCEPT !.PNum = pNum]

\* a track's cursor after a halfword w with pattern number pNum >= 0x80
HoldRow(q, pNum, w) == [q EXCEPT !.PXpose = toS8(w % 256), !.PNum = pNum]

\* a pattern-assignment row: every track takes its halfword
LoadRow(D, S, l) ==
  [S EXCEPT !.pdb.p =
    [i \in 0..7 |->
      LET pNum == (l[i] \div 256) % 256
          q == S.pdb.p[i]
      IN IF pNum < 128
         THEN [q EXCEPT !.PXpose = toS8(l[i] % 256), !.PNum = pNum, !.PStep = 0,
                        !.PWait = 0, !.PLoop = 65535, !.PAddr = PatternAt(D, pNum)]
         ELSE HoldRow(q, pNum, l[i])]]

\* TrackLoop reloaded as the macro Loop reloads its counter: count - 1
TrackLoopLess(tl, l) == IF tl - 1 < 0 THEN l[3] - 1 ELSE tl - 1

\* TrackLoop after the decrement of a loop row that jumps
TrackLoopNext(tl, l) == IF tl - 1 < 0 THEN l[3] ELSE tl - 1

\* meta-row 1: the trackstep loop command.  done: getTrackStep returns here.
MetaLoop(S, l) ==
  LET lp == IF S.loops # 0 THEN S.loops - 1 ELSE S.loops
      S1 == [S EXCEPT !.loops = lp, !.loopRows.n = @ + 1]
      tl == S.mdb.TrackLoop
  IN IF S.loops # 0 /\ lp = 0
     THEN [s |-> [S1 EXCEPT !.mdb.PlayerEnable = 0, !.loopRows.stop = TRUE],
           done |-> TRUE]
     ELSE IF tl = 0
     THEN [s |-> [S1 EXCEPT !.mdb.TrackLoop = -1, !.pdb.CurrPos = S.pdb.CurrPos + 1],
           done |-> FALSE]
     ELSE [s |-> [S1 EXCEPT !.mdb.TrackLoop = TrackLoopNext(tl, l),
                            !.pdb.CurrPos = l[2], !.loopRows.jumps = @ + 1],
           done |-> FALSE]

\* meta-row 2: speed
MetaSpeed(S, l) ==
  LET bpmVal == l[3] % 512
      \* l[3] & 0xF200: bits 15..12 and bit 9
      flags == (l[3] \div 4096) # 0 \/ (l[3] \div 512) % 2 = 1
      S1 == [S EXCEPT !.mdb.SpeedCnt = l[2], !.pdb.Prescale = l[2],
                      !.pdb.CurrPos = S.pdb.CurrPos + 1]
  IN IF ~flags /\ bpmVal > 15
     THEN [S1 EXCEPT !.mdb.CIASave = 1790456 \div bpmVal, !.eClocks = 1790456 \div bpmVal]
     ELSE S1

\* meta-row 3: timeshare
MetaTimeshare(S, l) ==
  LET sx == toS8(l[3] % 256)
      signedX == IF sx < -32 THEN -32 ELSE sx
      e == (14318 * (signedX + 100)) \div 100
      S1 == [S EXCEPT !.pdb.CurrPos = S.pdb.CurrPos + 1]
  IN IF l[3] < 32768
     THEN [S1 EXCEPT !.mdb.CIASave = e, !.eClocks = e, !.multimode = 1]
     ELSE S1

\* One pass of the while (true) loop of getTrackStep
TrackStepLine(D, S, l) ==
  IF S.pdb.CurrPos = S.pdb.FirstPos /\ S.loops < 0
  THEN [s |-> [S EXCEPT !.mdb.PlayerEnable = 0], done |-> TRUE]
  ELSE IF l[0] # 61438 THEN [s |-> LoadRow(D, S, l), done |-> TRUE]
  ELSE CASE l[1] = 0 -> [s |-> [S EXCEPT !.mdb.PlayerEnable = 0], done |-> TRUE]
         [] l[1] = 1 -> MetaLoop(S, l)
         [] l[1] = 2 -> [s |-> MetaSpeed(S, l), done |-> FALSE]
         [] l[1] = 3 -> [s |-> MetaTimeshare(S, l), done |-> FALSE]
         [] l[1] = 4 ->
              [s |-> [DoFade(S, l[2] % 256, l[3] % 256)
                        EXCEPT !.pdb.CurrPos = S.pdb.CurrPos + 1],
               done |-> FALSE]
         [] OTHER -> [s |-> [S EXCEPT !.pdb.CurrPos = S.pdb.CurrPos + 1],
                      done |-> FALSE]

\* what a pass of getTrackStep's loop did is entered in the operation's log:
\* the line it found at pos (row: the song's end test of the pass's head hit
\* "atFirst", a pattern row "row", else the meta-row's command), the loop
\* counters before it, the position, TrackLoop and PlayerEnable after it, and
\* whether it was a loop meta-row that jumped
Stepped(S, l, r) ==
  [r EXCEPT !.s.steps =
     Append(@, [row |-> IF S.pdb.CurrPos = S.pdb.FirstPos /\ S.loops < 0 THEN "atFirst"
                        ELSE IF l[0] # 61438 THEN "row"
                        ELSE IF l[1] = 0 THEN "stop"
                        ELSE IF l[1] = 1 THEN "loop"
                        ELSE "meta",
                pos |-> S.pdb.CurrPos, p2 |-> l[2], p3 |-> l[3],
                line |-> l, p |-> S.pdb.p, pAfter |-> r.s.pdb.p,
                loops |-> S.loops, tl |-> S.mdb.TrackLoop,
                posAfter |-> r.s.pdb.CurrPos, tlAfter |-> r.s.mdb.TrackLoop,
                enabled |-> r.s.mdb.PlayerEnable,
                jumped |-> r.s.loopRows.jumps > S.loopRows.jumps])]

TrackStepPass(D, S) ==
  Bind(TrackLine(D, S.pdb.CurrPos),
       LAMBDA l : Stepped(S, l, TrackStepLine(D, S, l)))

RECURSIVE TrackStepFrom(_, _)
TrackStepFrom(D, S) ==
  IF S.fuel >= MaxInstr THEN [S EXCEPT !.cut = TRUE]
  ELSE Bind(TrackStepPass(D, [S EXCEPT !.fuel = S.fuel + 1]),
            LAMBDA r : IF r.done THEN r.s ELSE TrackStepFrom(D, r.s))

GetTrackStep(D, S) == TrackStepFrom(D, [S EXCEPT !.fuel = 0])

-----------------------------------------------------------------------------
(* DoTrack *)

\* the result of doTrack: the state and the value returned (1: the trackstep
\* advanced), and for one instruction whether the loop goes on
TRet(S, adv) == [s |-> S, ret |-> TRUE, adv |-> adv]
TGo(S) == [s |-> S, ret |-> FALSE, adv |-> 0]

\* a note word (byte 0 below 0xF0)
TrackNote(D, G, S, ti, x) ==
  LET p == S.pdb.p[ti]
      t == B0(x)
      kind == (t \div 64) * 64
      nb0 == (t + p.PXpose) % 64
      x1 == << IF kind = 192 THEN nb0 + 192 ELSE nb0, B1(x), B2(x),
               IF kind = 128 THEN 0 ELSE B3(x) >>
      S1 == IF kind = 128 THEN [S EXCEPT !.pdb.p[ti].PWait = B3(x)] ELSE S
      S2 == IF G.trackMuted[ti] THEN S1 ELSE NotePort(D, G, S1, x1)
  IN [s |-> S2, ret |-> kind = 128, adv |-> 0]

\* an End that goes to the song's first position wherever it is
EndPosFirst(S) == S.pdb.FirstPos

\* an End that goes to the next position wherever it is
EndPosNext(S) == S.pdb.CurrPos + 1
\* the position End goes to: back to the first after the last
EndPos(S) ==
  IF S.pdb.CurrPos = S.pdb.LastPos THEN S.pdb.FirstPos ELSE S.pdb.CurrPos + 1

\* command 0: End
TrackEnd(D, S, ti) ==
  LET pos == EndPos(S)
  IN Bind(GetTrackStep(D, [S EXCEPT !.pdb.p[ti].PNum = 255, !.pdb.CurrPos = pos]),
          LAMBDA T :
            TRet(IF S.pdb.CurrPos = S.pdb.LastPos
                 THEN [T EXCEPT !.wrap = [hit |-> TRUE, pos |-> T.pdb.CurrPos,
                                          p |-> T.pdb.p]]
                 ELSE T, 1))

\* command 1: Loop
\* the count loaded as the macro Loop loads its counter: param A - 1
PLoopCountLess(p, x) == IF p.PLoop = 65535 THEN B1(x) - 1 ELSE p.PLoop

\* the count the Loop command decrements: param A at its first execution
PLoopCount(p, x) == IF p.PLoop = 65535 THEN B1(x) ELSE p.PLoop

TrackLoopCmd(S, ti, x) ==
  LET p == S.pdb.p[ti]
      cnt == PLoopCount(p, x)
  IN IF p.PLoop = 0 THEN TGo([S EXCEPT !.pdb.p[ti].PLoop = 65535])
     ELSE TGo([S EXCEPT !.pdb.p[ti] = [p EXCEPT !.PLoop = cnt - 1, !.PStep = W1(x)]])

\* command 11: PPat
TrackPPat(D, S, x) ==
  LET tr == B2(x) % 8
  IN TGo([S EXCEPT !.pdb.p[tr] =
           [S.pdb.p[tr] EXCEPT !.PNum = B1(x), !.PAddr = PatternAt(D, B1(x)),
                               !.PXpose = toS8(B3(x)), !.PStep = 0, !.PWait = 0,
                               !.PLoop = 65535]])

\* The body of the while (true) loop of doTrack for the word x; the cursor's
\* PStep is already incremented.
TrackExec(D, G, S, ti, x) ==
  LET p == S.pdb.p[ti]
      k == B0(x) % 16
  IN
  IF B0(x) < 240 THEN TrackNote(D, G, S, ti, x)
  ELSE
  CASE k = 15 -> TGo(S)
    [] k = 0 -> TrackEnd(D, S, ti)
    [] k = 1 -> TrackLoopCmd(S, ti, x)
    [] k = 8 ->
         TGo([S EXCEPT !.pdb.p[ti] =
               [p EXCEPT !.PRoAddr = p.PAddr, !.PRoStep = p.PStep,
                         !.PAddr = PatternAt(D, B1(x)), !.PStep = W1(x)]])
    [] k = 2 ->
         TGo([S EXCEPT !.pdb.p[ti] =
               [p EXCEPT !.PAddr = PatternAt(D, B1(x)), !.PStep = W1(x)]])
    [] k = 3 -> TRet([S EXCEPT !.pdb.p[ti].PWait = B1(x)], 0)
    [] k = 14 -> TRet([S EXCEPT !.mdb.PlayPattFlag = 0, !.pdb.p[ti].PNum = 255], 0)
    [] k = 4 -> TRet([S EXCEPT !.pdb.p[ti].PNum = 255], 0)
    [] k \in {5, 6, 7, 12} ->
         TGo(IF G.trackMuted[ti] THEN S ELSE NotePort(D, G, S, x))
    [] k = 9 ->
         TGo([S EXCEPT !.pdb.p[ti] = [p EXCEPT !.PAddr = p.PRoAddr, !.PStep = p.PRoStep]])
    [] k = 10 -> TGo(DoFade(S, B1(x), B3(x)))
    [] k = 13 -> TGo([S EXCEPT !.idb[B1(x) % 4] = W1(x)])
    [] k = 11 -> TrackPPat(D, S, x)

\* As MacroKey, for a pattern cursor: the zero word is an immediate note,
\* which never reads PStep.
TrackKey(D, S, ti) ==
  LET p == S.pdb.p[ti]
  IN IF p.PAddr + p.PStep > Len(D.editbuf)
     THEN [S EXCEPT !.pdb.p[ti].PStep = Len(D.editbuf) - p.PAddr, !.fuel = 0]
     ELSE [S EXCEPT !.fuel = 0]

RECURSIVE TrackLoopFrom(_, _, _, _, _)
TrackLoopFrom(D, G, S, ti, seen) ==
  LET key == TrackKey(D, S, ti)
      p == S.pdb.p[ti]
      raw == ReadEditbuf(D, p.PAddr + p.PStep)
  IN IF key \in seen THEN TRet([S EXCEPT !.hang = TRUE], 0)
     ELSE IF S.fuel >= MaxInstr THEN TRet([S EXCEPT !.cut = TRUE], 0)
     ELSE Bind(TrackExec(D, G, [S EXCEPT !.pdb.p[ti].PStep = p.PStep + 1,
                                         !.fuel = S.fuel + 1], ti, raw),
               LAMBDA r : IF r.ret THEN r
                          ELSE TrackLoopFrom(D, G, r.s, ti, seen \cup {key}))

DoTrack(D, G, S, ti) ==
  LET p == S.pdb.p[ti]
      S1 == [S EXCEPT !.pdb.p[ti].PNum = p.PNum + 1]
  IN IF p.PNum = 254
     THEN TRet(IF G.trackMuted[ti] THEN S1 ELSE ChannelOff(S1, p.PXpose), 0)
     ELSE IF p.PAddr = 0 /\ p.PNum # 0 THEN TRet(S, 0)
     ELSE IF p.PNum >= 144 THEN TRet(S, 0)
     ELSE IF p.PWait # 0 THEN TRet([S EXCEPT !.pdb.p[ti].PWait = p.PWait - 1], 0)
     ELSE TrackLoopFrom(D, G, [S EXCEPT !.fuel = 0], ti, {})

-----------------------------------------------------------------------------
(* DoTracks, tfmxIrqIn *)

\* The for loop of doTracks from track ti on.  A track that executed End
\* restarts the loop at track 0; seen holds the states at the earlier
\* restarts of this call.
RECURSIVE TracksFrom(_, _, _, _, _)
TracksFrom(D, G, S, ti, seen) ==
  IF ti > 7 THEN S
  ELSE Bind(DoTrack(D, G, Called(S, "doTrack", ti), ti),
            LAMBDA r :
              IF r.s.exc \/ r.s.hang \/ r.s.cut THEN r.s
              ELSE IF r.adv = 1
              THEN IF [r.s EXCEPT !.fuel = 0] \in seen THEN [r.s EXCEPT !.hang = TRUE]
                   ELSE IF Cardinality(seen) >= MaxInstr THEN [r.s EXCEPT !.cut = TRUE]
                   ELSE TracksFrom(D, G, r.s, 0, seen \cup {[r.s EXCEPT !.fuel = 0]})
              ELSE TracksFrom(D, G, r.s, ti + 1, seen))

\* the tracks are due when SpeedCnt has been decremented to 0
SpeedDueAfter(S) == S.mdb.SpeedCnt - 1 = 0

\* oldSpeedCnt === 0
SpeedDue(S) == S.mdb.SpeedCnt = 0

DoTracks(D, G, S) ==
  IF SpeedDue(S)
  THEN TracksFrom(D, G, [S EXCEPT !.mdb.SpeedCnt = S.pdb.Prescale], 0, {})
  ELSE [S EXCEPT !.mdb.SpeedCnt = S.mdb.SpeedCnt - 1]

TfmxIrqInBody(D, G, S) ==
  Bind(DoAllMacros(D, G, S),
       LAMBDA S1 : IF S1.hang \/ S1.cut THEN S1
                   ELSE IF S1.mdb.CurrSong >= 0
                   THEN DoTracks(D, G, Called(S1, "doTracks", S1.mdb.CurrSong))
                   ELSE S1)

\* a tick without the PlayerEnable guard
tfmxIrqInUnguarded(D, G, S) == TfmxIrqInBody(D, G, S)

tfmxIrqIn(D, G, S) ==
  IF S.mdb.PlayerEnable = 0 THEN S ELSE TfmxIrqInBody(D, G, S)

-----------------------------------------------------------------------------
(* allOff, tfmxInit, startSong, enableForPreview *)

enableForPreview(S) == [S EXCEPT !.mdb.PlayerEnable = 1, !.mdb.CurrSong = -1]

allOff(S) ==
  [S EXCEPT
    !.mdb.PlayerEnable = 0,
    !.cdb = [x \in 0..15 |->
              IF x > 7 THEN S.cdb[x]
              ELSE [S.cdb[x] EXCEPT !.hwIdx = x, !.MacroWait = 0, !.MacroRun = 0,
                                    !.SfxFlag = 0, !.CurVol = 0, !.SfxCode = 0,
                                    !.SaveAddr = 0, !.Loop = -1, !.NewStyleMacro = 255,
                                    !.SfxLockTime = -1, !.SaveLen = 2]],
    !.hdb = [x \in 0..7 |->
              [S.hdb[x] EXCEPT !.cIdx = x, !.mode = 0, !.vol = 0, !.sbeg = 0,
                               !.SampleStart = 0, !.SampleLength = 2, !.slen = 2,
                               !.loop = "off"]]]

RECURSIVE InitChannelsFrom(_, _)
InitChannelsFrom(S, x) ==
  IF x > 7 THEN S
  ELSE InitChannelsFrom(
         ChannelOff([S EXCEPT !.hdb[x].cIdx = x,
                              !.pdb.p[x] = [S.pdb.p[x] EXCEPT !.PNum = 255, !.PAddr = 0]], x),
         x + 1)

tfmxInit(S) == InitChannelsFrom(allOff(S), 0)

\* startSong(song, mode) for mode # 2, the only mode the callers use
startSong(D, S, song) ==
  LET tempo == D.tempo[song + 1]
      e == IF tempo >= 16 THEN 1790456 \div tempo ELSE DEFAULT_ECLOCKS
      S1 == [S EXCEPT
              !.mdb = [S.mdb EXCEPT !.PlayerEnable = 0, !.MasterVol = 64, !.FadeSlope = 0,
                                    !.TrackLoop = -1, !.PlayPattFlag = 0, !.CIASave = e],
              !.eClocks = e,
              !.loops = 0,
              !.loopRows = NoLoopRows,
              !.pdb = [S.pdb EXCEPT
                        !.CurrPos = D.start[song + 1],
                        !.FirstPos = D.start[song + 1],
                        !.LastPos = D.end[song + 1],
                        !.Prescale = IF tempo >= 16 THEN 0 ELSE tempo,
                        !.p = [x \in 0..7 |->
                                [S.pdb.p[x] EXCEPT !.PAddr = 0, !.PNum = 255,
                                                   !.PXpose = 0, !.PStep = 0]]]]
  IN Bind(GetTrackStep(D, S1),
          LAMBDA S2 : [S2 EXCEPT !.mdb = [S2.mdb EXCEPT !.SpeedCnt = 0, !.EndFlag = 0,
                                                        !.PlayerEnable = 1,
                                                        !.CurrSong = song]])

-----------------------------------------------------------------------------
(* TFMXAudio.ts: the mixer and the audio callback *)

\* createScriptProcessor(4096, 0, 2): samples asked for by one callback
ScriptBufferSize == 4096
MIX_BUFFER_SIZE == 8192

\* hw.loop(hw).  Both callbacks return 1; loopOn wakes a macro that waits for
\* the sample to wrap.
CallLoop(S, h) ==
  LET hw == S.hdb[h]
      c == S.cdb[hw.cIdx]
  IN IF hw.loop = "off" THEN S
     ELSE IF c.WaitDMACount > 0
     THEN [S EXCEPT !.cdb[hw.cIdx].WaitDMACount = c.WaitDMACount - 1]
     ELSE [S EXCEPT !.cdb[hw.cIdx] = [c EXCEPT !.WaitDMACount = c.WaitDMACount - 1,
                                               !.MacroRun = -1],
                    !.hdb[h].loop = "off"]

\* The sample loop of mixAdd with n samples left; p, ps, d, l are its locals.
\* Between two wraps the loop only adds d to ps, so the samples up to the
\* next one with ps >= l are taken in one step (k of them).
RECURSIVE MixLoop(_, _, _, _, _, _, _)
MixLoop(S, h, p, ps, d, l, n) ==
  LET hw == S.hdb[h]
      k == IF ps + d >= l THEN 1
           ELSE IF d > 0 THEN (l - ps + d - 1) \div d
           ELSE n + 1
      newLen == hw.SampleLength
      l1 == Shl14(newLen)
      S1 == [S EXCEPT !.hdb[h].slen = newLen]
  IN IF k > n
     THEN [S EXCEPT !.hdb[h] = [hw EXCEPT !.sbeg = p, !.pos = ps + n * d, !.delta = d]]
     ELSE IF l1 < 65536
     THEN [S EXCEPT !.hdb[h] = [hw EXCEPT !.slen = 0, !.sbeg = 0, !.pos = 0, !.delta = 0]]
     ELSE MixLoop(CallLoop(S1, h), h, hw.SampleStart, ps + k * d - l, d, l1, n - k)

ClearOneShot(S, h) ==
  IF (S.hdb[h].mode \div 4) % 2 = 1 THEN [S EXCEPT !.hdb[h].mode = 0] ELSE S

mixAdd(S, h, n) ==
  LET hw == S.hdb[h]
      v == IF hw.vol < 64 THEN hw.vol ELSE 64
      d == hw.delta
      armed == hw.mode % 4 = 1
      hw1 == IF armed
             THEN [hw EXCEPT !.sbeg = hw.SampleStart, !.slen = hw.SampleLength,
                             !.mode = ModeOr2(hw.mode)]
             ELSE hw
      p == hw1.sbeg
      ps == IF armed THEN 0 ELSE hw.pos
      l == Shl14(hw1.slen)
  IN IF hw.mode % 2 = 0 \/ Shl14(hw.slen) < 65536 THEN S
     ELSE IF v = 0 /\ d = 0 THEN S
     ELSE IF v = 0
     THEN [S EXCEPT !.hdb[h] = [hw1 EXCEPT !.pos = ps]]
     ELSE ClearOneShot(MixLoop([S EXCEPT !.hdb[h] = hw1], h, p, ps, d, l, n), h)

\* the hardware channel h has been mixed into the buffer of side b
Routed(S, h, b) ==
  [S EXCEPT !.route = IF b = "L" THEN [@ EXCEPT !.L = @ \cup {h}]
                      ELSE [@ EXCEPT !.R = @ \cup {h}]]

\* the calls of mixAdd in mixChannels, in their order: channel and buffer
MixOrder(S) ==
  IF S.multimode # 0
  THEN << <<4, "L">>, <<5, "L">>, <<6, "L">>, <<7, "L">>,
          <<0, "L">>, <<1, "R">>, <<2, "R">> >>
  ELSE << <<3, "L">>, <<0, "L">>, <<1, "R">>, <<2, "R">> >>

RECURSIVE MixSeq(_, _, _, _)
MixSeq(S, order, i, n) ==
  IF i > Len(order) THEN S
  ELSE MixSeq(Routed(mixAdd(S, order[i][1], n), order[i][1], order[i][2]),
              order, i + 1, n)

mixChannels(S, n) ==
  MixSeq([S EXCEPT !.route = [mixed |-> TRUE, multi |-> S.multimode # 0,
                              L |-> {}, R |-> {}]],
         MixOrder(S), 1, n)

\* a remainder that lets the carry through without taking it off
KeepRem(rem) == rem
\* if (this.eRem > 357955) { ...; this.eRem -= 357955 }
CarryRem(rem) == IF rem > 357955 THEN rem - 357955 ELSE rem

\* Samples are numbered in the order the bursts since play mixed them; -1
\* stands for a sample of value 0.  A buffer is held as its runs <<first, n>>
\* of n samples numbered first, first + 1, ... (or n zero samples).
ZeroRun(n) == IF n > 0 THEN << <<-1, n>> >> ELSE <<>>

\* the runs of a followed by those of b
Join(a, b) ==
  IF a = <<>> THEN b
  ELSE IF b = <<>> THEN a
  ELSE LET x == a[Len(a)]
           y == b[1]
       IN IF (x[1] = -1 /\ y[1] = -1) \/ (x[1] >= 0 /\ y[1] = x[1] + x[2])
          THEN SubSeq(a, 1, Len(a) - 1) \o << <<x[1], x[2] + y[2]>> >> \o Tail(b)
          ELSE a \o b

\* the first n samples of buffer b
RECURSIVE TakeRuns(_, _)
TakeRuns(b, n) ==
  IF n <= 0 \/ b = <<>> THEN <<>>
  ELSE IF b[1][2] >= n THEN << <<b[1][1], n>> >>
  ELSE <<b[1]>> \o TakeRuns(Tail(b), n - b[1][2])

\* buffer b from index n on
RECURSIVE DropRuns(_, _)
DropRuns(b, n) ==
  IF n <= 0 \/ b = <<>> THEN b
  ELSE IF b[1][2] > n
  THEN << <<IF b[1][1] = -1 THEN -1 ELSE b[1][1] + n, b[1][2] - n>> >> \o Tail(b)
  ELSE DropRuns(Tail(b), n - b[1][2])

\* the number of samples in the runs b
RECURSIVE RunsLen(_)
RunsLen(b) == IF b = <<>> THEN 0 ELSE b[1][2] + RunsLen(Tail(b))

\* buffer b after `for (i = 0; i < n; i++) b[i] = src[i]`
WriteRuns(b, src, n) == Join(TakeRuns(src, n), DropRuns(b, n))

\* a shift that moves nothing
shiftNothing(mix, pending, srcOffset, count) == mix

\* shiftMixBuffer(srcOffset, count) with `pending` samples in blockDone
shiftMixBuffer(mix, pending, srcOffset, count) ==
  IF pending - count > 0
  THEN WriteRuns(mix, DropRuns(mix, srcOffset + count), pending - count)
  ELSE mix

\* the bursts since play: their number of samples nb, the sums q and r of
\* the quotients and remainders of eClocks * (outRate >> 1) by 357955,
\* whether a burst was clamped, whether a tick ran while samples were
\* pending, the number fed of mixed samples written to the host, the mix
\* buffer, and the samples the last operation wrote to the host
NoBursts ==
  [nb |-> 0, q |-> 0, r |-> 0, clamped |-> FALSE, early |-> FALSE, fed |-> 0,
   mix |-> ZeroRun(MIX_BUFFER_SIZE), out |-> <<>>]

\* One pass of the tick branch of audioProcess: the tick, the block length
\* nb and the mix.  R carries the engine and eRem, blockDone.
AudioTick(D, G, R) ==
  Bind(tfmxIrqIn(D, G, R.s),
       LAMBDA S1 :
         LET prod == S1.eClocks * (G.outRate \div 2)
             rem == R.eRem + (prod % 357955)
             nb0 == prod \div 357955 + (IF rem > 357955 THEN 1 ELSE 0)
             nb == IF nb0 <= 0 THEN 1
                   ELSE IF nb0 > MIX_BUFFER_SIZE THEN MIX_BUFFER_SIZE ELSE nb0
         IN IF S1.exc \/ S1.hang \/ S1.cut
            THEN [R EXCEPT !.s = S1, !.ticks = R.ticks + 1]
            ELSE [s |-> mixChannels(S1, nb),
                  eRem |-> CarryRem(rem),
                  blockDone |-> nb, ticks |-> R.ticks + 1,
                  burst |-> [R.burst EXCEPT
                             !.nb = R.burst.nb + nb,
                             !.q = R.burst.q + prod \div 357955,
                             !.r = R.burst.r + (prod % 357955),
                             !.clamped = R.burst.clamped \/ nb # nb0,
                             !.early = R.burst.early \/ R.blockDone > 0,
                             !.mix = WriteRuns(R.burst.mix, << <<R.burst.nb, nb>> >>, nb)]])

\* The while loop of audioProcess with `written` samples delivered
RECURSIVE AudioLoop(_, _, _, _)
AudioLoop(D, G, R, written) ==
  LET toCopy == IF R.blockDone < ScriptBufferSize - written THEN R.blockDone
                ELSE ScriptBufferSize - written
  IN IF written >= ScriptBufferSize \/ R.s.mdb.PlayerEnable = 0
        \/ R.s.exc \/ R.s.hang \/ R.s.cut
     THEN [R EXCEPT !.burst.out = Join(@, ZeroRun(ScriptBufferSize - written))]
     ELSE IF R.blockDone > 0
     THEN AudioLoop(D, G,
            [R EXCEPT !.blockDone = R.blockDone - toCopy,
                      !.burst.out = Join(@, TakeRuns(R.burst.mix, toCopy)),
                      !.burst.fed = @ + toCopy,
                      !.burst.mix = shiftMixBuffer(@, R.blockDone, 0, toCopy)],
            written + toCopy)
     ELSE AudioLoop(D, G, AudioTick(D, G, R), written)

audioProcess(D, G, R, isPaused) ==
  IF isPaused \/ R.s.mdb.PlayerEnable = 0
  THEN [R EXCEPT !.burst.out = ZeroRun(ScriptBufferSize)]
  ELSE AudioLoop(D, G, R, 0)

\* TFMXAudio.play: the mixing state is reset, the engine initialised and started
play(D, R, song) ==
  [s |-> startSong(D, tfmxInit(R.s), song), eRem |-> 0, blockDone |-> 0, ticks |-> R.ticks,
   burst |-> NoBursts]

-----------------------------------------------------------------------------
(* TFMXParser.ts.  An MDAT file is taken as its words after the header      *)
(* (each four bytes) and the header's three raw offsets and song tables.     *)

\* the signed 32-bit value of a word (DataView.getInt32, big-endian)
Int32Of(x) == (IF x[1] >= 128 THEN x[1] - 256 ELSE x[1]) * 16777216 + Low24(x)

\* the word an Int32Array element holds after v (a 32-bit signed integer) is
\* stored in it
WordOf(v) ==
  LET w == IF v >= 0 THEN v ELSE (v + 2147483647) + 1
  IN << (w \div 16777216) + (IF v >= 0 THEN 0 ELSE 128), (w \div 65536) % 256,
        (w \div 256) % 256, w % 256 >>

\* constants.ts: the size of the header and the magics a file may start with,
\* each a sequence of characters
HEADER_SIZE == 512
TFMX_MAGIC_STRINGS ==
  { <<"T", "F", "M", "X", "-", "S", "O", "N", "G", " ">>,
    <<"T", "F", "M", "X", "_", "S", "O", "N", "G", " ">>,
    <<"T", "F", "M", "X", "S", "O", "N", "G", " ">>,
    <<"T", "F", "M", "X", " ">> }

\* String.prototype.startsWith
StartsWith(s, m) == Len(s) >= Len(m) /\ SubSeq(s, 1, Len(m)) = m

\* parseHeader's test of the first ten bytes
ValidMagic(magic) == \E m \in TFMX_MAGIC_STRINGS : StartsWith(magic, m)

\* a DataView read of size bytes at offset off in a buffer of n bytes is
\* within the buffer (it raises a RangeError otherwise)
InView(n, off, size) == off + size <= n

\* Math.trunc instead of Math.floor
NumWordsTrunc(n) ==
  IF n >= HEADER_SIZE THEN (n - HEADER_SIZE) \div 4 ELSE -((HEADER_SIZE - n) \div 4)

\* numWords = Math.floor((byteLength - HEADER_SIZE) / 4)
NumWords(n) == (n - HEADER_SIZE) \div 4

\* The error parseTFMX ends with on a file of f.byteLength bytes whose first
\* ten bytes (fewer in a shorter file) are f.magic, "none" if it returns:
\* parseHeader's magic test and its reads of the three song tables, the
\* allocation of editbuf, the reads of the three offsets.
ParseError(f) ==
  LET n == f.byteLength
  IN IF ~ValidMagic(f.magic) THEN "Error"
     ELSE IF \E i \in 0..31 : ~InView(n, 256 + 2 * i, 2) \/ ~InView(n, 320 + 2 * i, 2)
                               \/ ~InView(n, 384 + 2 * i, 2)
     THEN "RangeError"
     ELSE IF NumWords(n) + 1 < 0 THEN "RangeError"
     ELSE IF ~InView(n, 464, 4) \/ ~InView(n, 468, 4) \/ ~InView(n, 472, 4)
     THEN "RangeError"
     ELSE "none"

\* (raw - 0x200) >> 2 for a header offset, or the fallback index when raw is 0
StartIndex(raw, fallback) == IF raw = 0 THEN fallback ELSE (raw - 512) \div 4

\* The loop that resolves a pointer table from entry z on, i entries done and
\* out the table so far.  An entry outside the Int32Array reads undefined:
\* y is NaN, both tests fail, the store is ignored and 0 is pushed; the
\* entries from the end of the array on, and those before index 0, are taken
\* in one step.
RECURSIVE ResolveFrom(_, _, _, _, _)
ResolveFrom(eb, z, mlen, i, out) ==
  IF i >= 128 THEN [editbuf |-> eb, table |-> out]
  ELSE IF z >= Len(eb)
  THEN [editbuf |-> eb, table |-> out \o [k \in 1..(128 - i) |-> 0]]
  ELSE IF z < 0
  THEN LET c == IF -z < 128 - i THEN -z ELSE 128 - i
       IN ResolveFrom(eb, z + c, mlen, i + c, out \o [k \in 1..c |-> 0])
  ELSE LET y == Int32Of(eb[z + 1]) - 512
       IN IF y % 4 # 0 \/ (y \div 4) > mlen
          THEN [editbuf |-> eb, table |-> out]
          ELSE ResolveFrom([eb EXCEPT ![z + 1] = WordOf(y \div 4)], z + 1, mlen,
                           i + 1, Append(out, y \div 4))

ResolveTable(eb, z, mlen) == ResolveFrom(eb, z, mlen, 0, <<>>)

\* parseTFMX on a file it does not refuse: the sentinel is appended (the
\* store is ignored when the array is empty), the header offsets become indices,
\* the macro table and then the pattern table are resolved in place
parseTFMX(f) ==
  LET mlen == NumWords(f.byteLength)
      editbuf == IF mlen >= 0 THEN Append(f.words, SentinelWord) ELSE <<>>
      pattstart == StartIndex(f.rawPattstart, 128)
      macrostart == StartIndex(f.rawMacrostart, 256)
  IN Bind(ResolveTable(editbuf, macrostart, mlen),
          LAMBDA m :
            Bind(ResolveTable(m.editbuf, pattstart, mlen),
                 LAMBDA q :
                   [ editbuf |-> q.editbuf,
                     patterns |-> q.table,
                     macros |-> m.table,
                     trackstart |-> StartIndex(f.rawTrackstart, 384),
                     start |-> f.start,
                     end |-> f.end,
                     tempo |-> f.tempo ]))

-----------------------------------------------------------------------------
(* MDAT files: trackstep lines, pattern code, macro code, the pattern       *)
(* pointer table, a word that ends it, the macro pointer table.             *)

RECURSIVE Flatten(_)
Flatten(ss) == IF ss = <<>> THEN <<>> ELSE Head(ss) \o Flatten(Tail(ss))

\* the index at which each of the programs ss starts when laid out from base
RECURSIVE Offsets(_, _)
Offsets(ss, base) ==
  IF ss = <<>> THEN <<>> ELSE <<base>> \o Offsets(Tail(ss), base + Len(Head(ss)))

\* the four 32-bit words of a trackstep line of eight halfwords
LineWords(l) ==
  [i \in 1..4 |-> <<l[2 * i - 1] \div 256, l[2 * i - 1] % 256,
                    l[2 * i] \div 256, l[2 * i] % 256>>]

\* the file offset of the word with index n
FileOffset(n) == 512 + 4 * n
\* file offset 1: not a multiple of four, so the table scan stops here
MagicSong == <<"T", "F", "M", "X", "-", "S", "O", "N", "G", " ">>
TableEnd == <<0, 0, 0, 1>>

MdatFile(ts, ps, ms, songs) ==
  LET tsw == Flatten([i \in 1..Len(ts) |-> LineWords(ts[i])])
      pcode == Flatten(ps)
      mcode == Flatten(ms)
      pAddr == Offsets(ps, Len(tsw))
      mAddr == Offsets(ms, Len(tsw) + Len(pcode))
      code == tsw \o pcode \o mcode
  IN [ magic |-> MagicSong,
       byteLength |-> FileOffset(Len(code) + Len(pAddr) + 1 + Len(mAddr)),
       words |-> code
                 \o [i \in 1..Len(pAddr) |-> WordOf(FileOffset(pAddr[i]))]
                 \o <<TableEnd>>
                 \o [i \in 1..Len(mAddr) |-> WordOf(FileOffset(mAddr[i]))],
       rawTrackstart |-> FileOffset(0),
       rawPattstart |-> FileOffset(Len(code)),
       rawMacrostart |-> FileOffset(Len(code) + Len(pAddr) + 1),
       start |-> [i \in 1..Len(songs) |-> songs[i][1]],
       end |-> [i \in 1..Len(songs) |-> songs[i][2]],
       tempo |-> [i \in 1..Len(songs) |-> songs[i][3]] ]

-----------------------------------------------------------------------------
(* The modules and host settings the engine is run on *)

DEFAULT_OUT_RATE == 44100

Idle == 255 * 256                   \* 0xFF00: no pattern on this track
Row(a, b) == <<a, b, Idle, Idle, Idle, Idle, Idle, Idle>>
Meta(cmd, p2, p3) == <<61438, cmd, p2, p3, 0, 0, 0, 0>>

\* patterns
PatNote == << <<158, 0, 240, 7>>, <<240, 0, 0, 0>> >>      \* note, wait 7; End
PatShort == << <<243, 1, 0, 0>>, <<240, 0, 0, 0>> >>       \* Wait 1; End
PatFade == << <<250, 1, 0, 32>>, <<158, 0, 240, 3>>,       \* Fade 1 -> 32; note
              <<245, 0, 0, 0>>, <<243, 9, 0, 0>>, <<240, 0, 0, 0>> >>
PatFadeUp == << <<250, 1, 0, 64>>, <<158, 0, 240, 9>>, <<240, 0, 0, 0>> >>
PatRunaway == << <<30, 0, 240, 0>> >>                      \* a note and no End

\* macros
MacPlain == << <<0, 0, 0, 0>>, <<2, 0, 0, 16>>, <<3, 0, 0, 8>>, <<13, 0, 0, 16>>,
               <<8, 0, 0, 0>>, <<1, 1, 0, 0>>, <<4, 0, 0, 2>>, <<19, 1, 0, 0>>,
               <<7, 0, 0, 0>> >>
MacLoud == << <<0, 0, 0, 0>>, <<2, 0, 0, 16>>, <<3, 0, 0, 8>>, <<14, 0, 0, 255>>,
              <<23, 0, 7, 255>>, <<12, 2, 0, 127>>, <<1, 1, 0, 0>>, <<4, 0, 0, 4>>,
              <<7, 0, 0, 0>> >>
MacRunaway == << <<14, 0, 0, 32>>, <<1, 1, 0, 0>> >>       \* no Stop

Songs2 == << <<0, 0, 0>>, <<1, 2, 0>> >>

ModPlain ==
  parseTFMX(MdatFile(<< Row(0, Idle), Row(256, Idle), Meta(0, 0, 0) >>,
            << PatNote, PatShort >>, << MacPlain >>, Songs2))
\* the second song's row silences channel 8 from track 1, the first channel 1
ModSilence ==
  parseTFMX(MdatFile(<< Row(0, 65025), Row(0, 65032), Meta(0, 0, 0) >>,
            << PatNote >>, << MacPlain >>, Songs2))
ModRunaway ==
  parseTFMX(MdatFile(<< Row(0, Idle), Row(256, Idle), Meta(0, 0, 0) >>,
            << PatNote, PatRunaway >>, << MacRunaway >>, Songs2))
ModFade ==
  parseTFMX(MdatFile(<< Row(0, Idle), Row(256, Idle), Meta(0, 0, 0) >>,
            << PatFade, PatFadeUp >>, << MacPlain >>, Songs2))
ModLoud ==
  parseTFMX(MdatFile(<< Row(0, Idle), Meta(4, 0, 255), Row(0, Idle) >>,
            << PatNote >>, << MacLoud >>, Songs2))
ModMeta ==
  parseTFMX(MdatFile(<< Meta(2, 1, 0), Meta(3, 0, 0), Row(0, 256), Meta(1, 2, 1), Meta(0, 0, 0) >>,
            << PatNote, PatShort >>, << MacPlain >>, << <<0, 4, 0>> >>))

\* both songs end their pattern at their last position; the second song's
\* first position holds a speed meta-row
ModWrap ==
  parseTFMX(MdatFile(<< Row(0, Idle), Meta(2, 0, 0), Row(0, Idle), Meta(0, 0, 0) >>,
            << PatShort >>, << MacPlain >>, Songs2))

NoneMuted == [i \in 0..7 |-> FALSE]
CfgDefault ==
  [gemx |-> 0, dangerFreakHack |-> 0, trackMuted |-> NoneMuted,
   outRate |-> DEFAULT_OUT_RATE]
CfgMuted == [CfgDefault EXCEPT !.trackMuted[0] = TRUE]
CfgHacks == [CfgDefault EXCEPT !.gemx = 1, !.dangerFreakHack = 1]

\* the pairs of module and host settings the engine starts with
Setups ==
  { <<ModPlain, CfgDefault>>, <<ModPlain, CfgHacks>>,
    <<ModSilence, CfgDefault>>,
    <<ModRunaway, CfgDefault>>,
    <<ModFade, CfgDefault>>, <<ModFade, CfgMuted>>,
    <<ModLoud, CfgDefault>>, <<ModLoud, CfgHacks>>,
    <<ModMeta, CfgDefault>>, <<ModMeta, CfgMuted>>,
    <<ModWrap, CfgDefault>> }

-----------------------------------------------------------------------------
(* The state machine *)

\* the engine the variables describe, as the operators above take it
Engine ==
  [ mdb |-> mdb, pdb |-> pdb, cdb |-> cdb, hdb |-> hdb, idb |-> idb,
    multimode |-> multimode, eClocks |-> eClocks, loops |-> loops,
    exc |-> FALSE, hang |-> FALSE, cut |-> FALSE, fuel |-> 0, efxPer |-> efxPer,
    fetchOut |-> FALSE, wrap |-> NoWrap, route |-> NoRoute,
    dispatch |-> <<>>, loopRows |-> loopRows, steps |-> <<>>,
    gates |-> <<>> ]

\* engine and mixing state before an operation, and the reference's
Cur == [s |-> Engine, eRem |-> eRem, blockDone |-> blockDone, ticks |-> 0,
        burst |-> [burst EXCEPT !.out = <<>>]]
RefCur == [s |-> ref.s, eRem |-> ref.eRem, blockDone |-> ref.blockDone, ticks |-> 0,
           burst |-> NoBursts]
RefCfg == [cfg EXCEPT !.trackMuted = NoneMuted]

\* the operations on such a record
OpTick(D, G, R) == [R EXCEPT !.s = tfmxIrqIn(D, G, R.s), !.ticks = R.ticks + 1]
OpStart(D, R, song) == [R EXCEPT !.s = startSong(D, R.s, song)]
OpStop(R) == [R EXCEPT !.s = allOff(R.s)]
OpLoad(R) == [R EXCEPT !.s = tfmxInit(R.s)]
OpMacro(D, G, R, cc) == [R EXCEPT !.s = DoMacro(D, G, R.s, cc)]
\* notePort(x), entered in the call log
OpNotePort(D, G, R, x) ==
  [R EXCEPT !.s = NotePort(D, G, Called(R.s, "notePort", x), x)]
OpPreview(R) == [R EXCEPT !.s = enableForPreview(R.s)]
\* the host's assignment player.loops = n
OpSetLoops(R, n) == [R EXCEPT !.s.loops = n]

\* The variables take the values operation op left in R; RR is what the same
\* operation left in the reference engine, which stops being followed once an
\* operation on it failed.
Commit(R, RR, op) ==
  /\ mdb' = R.s.mdb
  /\ pdb' = R.s.pdb
  /\ cdb' = R.s.cdb
  /\ hdb' = R.s.hdb
  /\ idb' = R.s.idb
  /\ multimode' = R.s.multimode
  /\ eClocks' = R.s.eClocks
  /\ loops' = R.s.loops
  /\ efxPer' = R.s.efxPer
  /\ eRem' = R.eRem
  /\ blockDone' = R.blockDone
  /\ thrown' = (thrown \/ R.s.exc)
  /\ hung' = R.s.hang
  /\ cutoff' = R.s.cut
  /\ macroFetchOut' = R.s.fetchOut
  /\ burst' = R.burst
  /\ wrap' = R.s.wrap
  /\ route' = R.s.route
  /\ dispatch' = R.s.dispatch
  /\ steps' = R.s.steps
  /\ gates' = R.s.gates
  /\ before' = [pos |-> pdb.CurrPos, speedCnt |-> mdb.SpeedCnt,
                prescale |-> pdb.Prescale]
  /\ loopRows' = R.s.loopRows
  /\ hostLoops' = IF op = "setLoops" THEN [n |-> R.s.loops, started |-> nstarts > 0]
                  ELSE hostLoops
  /\ lastOp' = op
  /\ wasOff' = (mdb.PlayerEnable = 0)
  /\ nticks' = nticks + R.ticks
  /\ ref' = IF ~ref.ok THEN ref
            ELSE [s |-> [RR.s EXCEPT !.exc = FALSE, !.fuel = 0, !.fetchOut = FALSE,
                               !.wrap = NoWrap, !.route = NoRoute,
                               !.dispatch = <<>>, !.loopRows = NoLoopRows,
                               !.steps = <<>>, !.gates = <<>>], eRem |-> RR.eRem,
                  blockDone |-> RR.blockDone,
                  ok |-> ~(RR.s.exc \/ RR.s.hang \/ RR.s.cut)]
  /\ UNCHANGED <<data, cfg, mdat, tables>>

\* no file has been handed to the parser
NoFile ==
  [magic |-> <<>>, byteLength |-> 0, words |-> <<>>, rawTrackstart |-> 0, rawPattstart |-> 0, rawMacrostart |-> 0,
   start |-> <<>>, end |-> <<>>, tempo |-> <<>>]
NotParsed ==
  [done |-> FALSE, error |-> "none", patterns |-> <<>>, macros |-> <<>>, len |-> 0]

\* the player and the audio bridge as constructed, with controllers c
Built(c) ==
  /\ mdb = NewEngine.mdb
  /\ pdb = NewEngine.pdb
  /\ cdb = c
  /\ hdb = NewEngine.hdb
  /\ idb = NewEngine.idb
  /\ multimode = NewEngine.multimode
  /\ eClocks = NewEngine.eClocks
  /\ loops = NewEngine.loops
  /\ efxPer = NewEngine.efxPer
  /\ eRem = 0
  /\ blockDone = 0
  /\ paused = TRUE
  /\ thrown = FALSE
  /\ hung = FALSE
  /\ cutoff = FALSE
  /\ macroFetchOut = FALSE
  /\ burst = NoBursts
  /\ wrap = NoWrap
  /\ route = NoRoute
  /\ dispatch = <<>>
  /\ steps = <<>>
  /\ gates = <<>>
  /\ before = [pos |-> NewEngine.pdb.CurrPos, speedCnt |-> NewEngine.mdb.SpeedCnt,
               prescale |-> NewEngine.pdb.Prescale]
  /\ loopRows = NoLoopRows
  /\ hostLoops = [n |-> NewEngine.loops, started |-> FALSE]
  /\ lastOp = "new"
  /\ wasOff = TRUE
  /\ nticks = 0
  /\ nstarts = 0
  /\ ref = [s |-> NewEngine, eRem |-> 0, blockDone |-> 0, ok |-> TRUE]

Constructed == Built(NewEngine.cdb)

Init ==
  /\ \E su \in Setups : data = su[1] /\ cfg = su[2]
  /\ Constructed
  /\ mdat = NoFile
  /\ tables = NotParsed

Running == ~hung /\ ~cutoff

\* TFMXAudio.load
Load ==
  /\ Running
  /\ lastOp = "new"
  /\ Commit(OpLoad(Cur), OpLoad(RefCur), "load")
  /\ UNCHANGED <<paused, nstarts>>

\* TFMXAudio.play(songNum)
Play ==
  /\ Running
  /\ nstarts < MaxStarts
  /\ \E song \in 0..(Len(data.start) - 1) :
       Commit(play(data, Cur, song), play(data, RefCur, song), "play")
  /\ paused' = FALSE
  /\ nstarts' = nstarts + 1

\* TFMXPlayer.startSong(song)
StartSong ==
  /\ Running
  /\ nstarts < MaxStarts
  /\ \E song \in 0..(Len(data.start) - 1) :
       Commit(OpStart(data, Cur, song), OpStart(data, RefCur, song), "startSong")
  /\ nstarts' = nstarts + 1
  /\ UNCHANGED paused

\* TFMXPlayer.tfmxIrqIn()
Tick ==
  /\ Running
  /\ nticks < MaxTicks
  /\ Commit(OpTick(data, cfg, Cur), OpTick(data, RefCfg, RefCur), "tick")
  /\ UNCHANGED <<paused, nstarts>>

\* the onaudioprocess callback, connected from play to stop
AudioProcess ==
  /\ Running
  /\ ~paused
  /\ nticks < MaxTicks
  /\ Commit(audioProcess(data, cfg, Cur, paused),
            audioProcess(data, RefCfg, RefCur, paused), "audioProcess")
  /\ UNCHANGED <<paused, nstarts>>

\* TFMXAudio.stop
Stop ==
  /\ Running
  /\ ~paused
  /\ Commit(OpStop(Cur), OpStop(RefCur), "stop")
  /\ paused' = TRUE
  /\ UNCHANGED nstarts

Next == Load \/ Play \/ StartSong \/ Tick \/ AudioProcess \/ Stop

Spec == Init /\ [][Next]_vars

-----------------------------------------------------------------------------
(* The parser alone, on files that hold nothing but two pointer tables: the *)
(* pattern table first, the macro table after it, TableLen entries in all.  *)

\* the file offsets an entry is drawn from: below 0x200, the first two words,
\* a misaligned one, the sentinel's index, the first index beyond it
RawEntries == {0, 512, 513, 516, FileOffset(TableLen), FileOffset(TableLen + 1)}

RECURSIVE WordSeqs(_)
WordSeqs(n) ==
  IF n = 0 THEN {<<>>}
  ELSE {Append(s, WordOf(e)) : s \in WordSeqs(n - 1), e \in RawEntries}

TableFiles ==
  { [NoFile EXCEPT !.magic = MagicSong, !.byteLength = FileOffset(TableLen),
                   !.words = w, !.rawTrackstart = FileOffset(0),
                   !.rawPattstart = FileOffset(0), !.rawMacrostart = FileOffset(k)]
      : w \in WordSeqs(TableLen), k \in 1..(TableLen - 1) }

\* first bytes of files: the recognized magics, two of them followed by other
\* text, and magics that are not recognized
Magics ==
  TFMX_MAGIC_STRINGS
  \cup { <<"T", "F", "M", "X", "S", "O", "N", "G", " ", "x">>,
         <<"T", "F", "M", "X", " ", "M", "O", "D", "2", "!">>,
         <<"N", "O", "T", "-", "T", "F", "M", "X", " ", " ">>,
         <<"T", "F", "M", "X", "-", "S", "O", "N", "G", "S">>,
         <<"t", "f", "m", "x", "-", "s", "o", "n", "g", " ">>,
         <<"T", "F", "M", "X">> }

\* the lengths of files cut short in the header
ShortLengths == {10, 255, 257, 447, 448, 475, 476, 504, 505, 507, 508, 511}

\* the first bytes of a file of n bytes that starts with the text m
FirstBytes(m, n) == IF n >= Len(m) THEN m ELSE SubSeq(m, 1, n)

\* files with the tables of f: whole ones with every magic, and ones cut
\* short in the header, which hold no words
HeaderFiles ==
  { [f EXCEPT !.magic = m] : f \in {g \in TableFiles : g.rawMacrostart = FileOffset(1)},
                             m \in {k \in Magics : k # MagicSong} }
  \cup { [f EXCEPT !.magic = FirstBytes(m, n), !.byteLength = n, !.words = <<>>]
           : f \in {g \in TableFiles : g = CHOOSE h \in TableFiles : TRUE},
             m \in Magics, n \in ShortLengths \cup {4, 5} }

InitParse ==
  /\ data = ModPlain
  /\ cfg = CfgDefault
  /\ Constructed
  /\ mdat \in TableFiles \cup HeaderFiles
  /\ tables = NotParsed

\* parseTFMX(mdat)
Parse ==
  /\ ~tables.done
  /\ tables' = IF ParseError(mdat) # "none"
                THEN [NotParsed EXCEPT !.done = TRUE, !.error = ParseError(mdat)]
                ELSE [done |-> TRUE, error |-> "none",
                      patterns |-> parseTFMX(mdat).patterns,
                      macros |-> parseTFMX(mdat).macros,
                      len |-> Len(parseTFMX(mdat).editbuf)]
  /\ UNCHANGED <<data, cfg, mdb, pdb, cdb, hdb, idb, multimode, eClocks, loops,
                 thrown, hung, lastOp, wasOff, nticks, nstarts, eRem, blockDone,
                 paused, cutoff, efxPer, ref, macroFetchOut, wrap, route, dispatch,
                 loopRows, hostLoops, steps, before, gates, burst, mdat>>

NextParse == Parse

SpecParse == InitParse /\ [][NextParse]_vars

-----------------------------------------------------------------------------
(* A fade-out alone: the song's only pattern starts a fade to 0 with speed  *)
(* 2 in the first tick and then waits; no note is played.                   *)

PatFadeOut == << <<250, 2, 0, 0>>, <<243, 255, 0, 0>>, <<240, 0, 0, 0>> >>
ModFadeOut ==
  parseTFMX(MdatFile(<< Row(0, Idle), Meta(0, 0, 0) >>,
            << PatFadeOut >>, << MacPlain >>, << <<0, 0, 0>> >>))

InitFade ==
  /\ data = ModFadeOut
  /\ cfg = CfgDefault
  /\ Constructed
  /\ mdat = NoFile
  /\ tables = NotParsed

\* TFMXAudio.play(0)
FadePlay ==
  /\ lastOp = "new"
  /\ Commit(play(data, Cur, 0), play(data, RefCur, 0), "play")
  /\ paused' = FALSE
  /\ nstarts' = nstarts + 1

\* TFMXPlayer.tfmxIrqIn()
FadeTick ==
  /\ Running
  /\ lastOp # "new"
  /\ nticks < FadeTicks
  /\ Commit(OpTick(data, cfg, Cur), OpTick(data, RefCfg, RefCur), "tick")
  /\ UNCHANGED <<paused, nstarts>>

NextFade == FadePlay \/ FadeTick

SpecFade == InitFade /\ [][NextFade]_vars

-----------------------------------------------------------------------------
(* doMacro alone, on a controller 0 whose CurPeriod is any value up to      *)
(* MaxPeriod (SetPeriod stores any 16-bit value there).                      *)

InitDelta ==
  /\ data = ModPlain
  /\ cfg = CfgDefault
  /\ \E per \in 0..MaxPeriod :
       Built([NewEngine.cdb EXCEPT ![0].CurPeriod = per])
  /\ mdat = NoFile
  /\ tables = NotParsed

\* doMacro(cdb[0], 0)
MacroPass ==
  /\ lastOp = "new"
  /\ Commit(OpMacro(data, cfg, Cur, 0), OpMacro(data, RefCfg, RefCur, 0), "doMacro")
  /\ UNCHANGED <<paused, nstarts>>

NextDelta == MacroPass

SpecDelta == InitDelta /\ [][NextDelta]_vars

-----------------------------------------------------------------------------
(* The player under a host that assigns the public field loops, starts a    *)
(* song with startSong or enables the player for a macro preview, and then  *)
(* calls tfmxIrqIn up to HostTicks times.                                    *)

HostTicks == 14

\* Wait 0; End
PatBrief == << <<243, 0, 0, 0>>, <<240, 0, 0, 0>> >>

\* two rows, a loop meta-row that takes the song back to the first of them
\* once, and a last row whose End takes it back again; a second sub-song
\* that begins at the stop meta-row, and a third over the rows of the first
\* with tempo 2
ModRound ==
  parseTFMX(MdatFile(<< Row(256, Idle), Row(256, Idle), Meta(1, 0, 0), Row(256, Idle),
                        Meta(0, 0, 0) >>,
            << PatNote, PatBrief >>, << MacPlain >>, << <<0, 3, 0>>, <<4, 4, 0>>, <<0, 3, 2>> >>))

\* track 0 plays PatBrief and track 1 PatNote; the second row, loaded while
\* track 1 is in its pattern, holds track 1 (0xFF05: number 0xFF, transpose 5)
ModHold ==
  parseTFMX(MdatFile(<< Row(256, 0), Row(256, 65285), Meta(0, 0, 0) >>,
            << PatNote, PatBrief >>, << MacPlain >>, << <<0, 2, 0>> >>))

\* a sub-song over the positions 1..2 whose last position is a speed
\* meta-row; the lines 3 and 4 follow it in the trackstep table
ModStray ==
  parseTFMX(MdatFile(<< Row(256, Idle), Row(256, Idle), Meta(2, 0, 0), Row(256, Idle),
                        Meta(0, 0, 0) >>,
            << PatNote, PatBrief >>, << MacPlain >>, << <<1, 2, 0>> >>))

InitHost ==
  /\ \E su \in Setups \cup {<<ModRound, CfgDefault>>, <<ModHold, CfgDefault>>,
                            <<ModStray, CfgDefault>>} :
       data = su[1] /\ cfg = su[2]
  /\ Constructed
  /\ mdat = NoFile
  /\ tables = NotParsed
HostLoops == {-1, 1, 2}

\* player.loops = n, before the song is started or right after
SetLoops ==
  /\ lastOp \in {"new", "startSong"}
  /\ \E n \in HostLoops :
       Commit(OpSetLoops(Cur, n), OpSetLoops(RefCur, n), "setLoops")
  /\ UNCHANGED <<paused, nstarts>>

\* TFMXPlayer.startSong(song)
HostStart ==
  /\ lastOp \in {"new", "setLoops"}
  /\ nstarts = 0
  /\ \E song \in 0..(Len(data.start) - 1) :
       Commit(OpStart(data, Cur, song), OpStart(data, RefCur, song), "startSong")
  /\ nstarts' = nstarts + 1
  /\ UNCHANGED paused

\* TFMXPlayer.enableForPreview()
EnableForPreview ==
  /\ lastOp = "new"
  /\ Commit(OpPreview(Cur), OpPreview(RefCur), "enableForPreview")
  /\ UNCHANGED <<paused, nstarts>>

\* TFMXPlayer.tfmxIrqIn()
HostTick ==
  /\ Running
  /\ lastOp # "new"
  /\ nticks < HostTicks
  /\ Commit(OpTick(data, cfg, Cur), OpTick(data, RefCfg, RefCur), "tick")
  /\ UNCHANGED <<paused, nstarts>>

NextHost == SetLoops \/ HostStart \/ EnableForPreview \/ HostTick

SpecHost == InitHost /\ [][NextHost]_vars

-----------------------------------------------------------------------------
(* notePort alone, on a started song: lock commands, then any command.      *)

\* notes, a portamento note, key-up, vibrato, envelope, the lock command and
\* a command notePort does not know, for the channels 0, 1 and 5
PortCommands ==
  { <<b0, b1, b2, 3>> : b0 \in {30, 158, 197, 245, 246, 247, 250, 252},
                        b1 \in {0, 1}, b2 \in {240, 241, 245} }

InitNote ==
  /\ data \in {ModPlain, ModMeta}
  /\ cfg = CfgDefault
  /\ Constructed
  /\ mdat = NoFile
  /\ tables = NotParsed

\* TFMXAudio.play(0)
NotePlay ==
  /\ lastOp = "new"
  /\ Commit(play(data, Cur, 0), play(data, RefCur, 0), "play")
  /\ paused' = FALSE
  /\ nstarts' = nstarts + 1

\* notePort(x)
NotePortCall ==
  /\ lastOp = "play" \/ (lastOp = "notePort" /\ B0(dispatch[1][2]) = 252)
  /\ \E x \in PortCommands :
       Commit(OpNotePort(data, cfg, Cur, x), OpNotePort(data, RefCfg, RefCur, x),
              "notePort")
  /\ UNCHANGED <<paused, nstarts>>

NextNote == NotePlay \/ NotePortCall

SpecNote == InitNote /\ [][NextNote]_vars

-----------------------------------------------------------------------------
(* A macro that waits for the sample's wraps: WaitOnDMA with count 0, 1 or  *)
(* DmaLong (more wraps than one burst holds) on a looping sample of 16      *)
(* bytes, under ticks and audio callbacks.                                  *)

DmaTicks == 16
DmaLong == 20

\* the note and a wait longer than any run here
PatHold == << <<158, 0, 240, 200>>, <<240, 0, 0, 0>> >>

\* DMAoff, SetBegin, SetLen 8, AddVolume 16, AddNote, DMAon, WaitOnDMA n,
\* AddVolume 32, Stop
MacDma(n) == << <<0, 0, 0, 0>>, <<2, 0, 0, 16>>, <<3, 0, 0, 8>>, <<13, 0, 0, 16>>,
                <<8, 0, 0, 0>>, <<1, 1, 0, 0>>, <<26, 0, 0, n>>, <<13, 0, 0, 32>>,
                <<7, 0, 0, 0>> >>
\* MacroStep once WaitOnDMA has been fetched
AfterWaitOnDMA == 7

ModDma(n) ==
  parseTFMX(MdatFile(<< Row(0, Idle), Meta(0, 0, 0) >>,
            << PatHold >>, << MacDma(n) >>, << <<0, 0, 0>> >>))

\* DMAoff, SetBegin, SetLen 0, AddVolume 16, AddNote, DMAon, Stop: the
\* channel is armed while SaveLen is 0
MacZeroLen == << <<0, 0, 0, 0>>, <<2, 0, 0, 16>>, <<3, 0, 0, 0>>, <<13, 0, 0, 16>>,
                 <<8, 0, 0, 0>>, <<1, 1, 0, 0>>, <<7, 0, 0, 0>> >>

ModZeroLen ==
  parseTFMX(MdatFile(<< Row(0, Idle), Meta(0, 0, 0) >>,
            << PatHold >>, << MacZeroLen >>, << <<0, 0, 0>> >>))

InitDma ==
  /\ data \in {ModDma(0), ModDma(1), ModDma(DmaLong), ModZeroLen}
  /\ cfg \in {CfgDefault, CfgHacks}
  /\ Constructed
  /\ mdat = NoFile
  /\ tables = NotParsed

\* TFMXAudio.play(0)
DmaPlay ==
  /\ lastOp = "new"
  /\ Commit(play(data, Cur, 0), play(data, RefCur, 0), "play")
  /\ paused' = FALSE
  /\ nstarts' = nstarts + 1

\* TFMXPlayer.tfmxIrqIn()
DmaTick ==
  /\ Running
  /\ lastOp # "new"
  /\ nticks < DmaTicks
  /\ Commit(OpTick(data, cfg, Cur), OpTick(data, RefCfg, RefCur), "tick")
  /\ UNCHANGED <<paused, nstarts>>

\* the audio callback
DmaAudio ==
  /\ Running
  /\ lastOp # "new"
  /\ nticks < DmaTicks
  /\ Commit(audioProcess(data, cfg, Cur, paused),
            audioProcess(data, RefCfg, RefCur, paused), "audioProcess")
  /\ UNCHANGED <<paused, nstarts>>

NextDma == DmaPlay \/ DmaTick \/ DmaAudio

SpecDma == InitDma /\ [][NextDma]_vars

-----------------------------------------------------------------------------
(* A macro loop: SetLen 0, AddLen 1, Wait 0, Loop n back to AddLen, Stop.   *)
(* The macro is the note's own, or is entered from it by Cont or by GoSub;  *)
(* CurrLength counts the passes of the loop's body, one in a tick.          *)

MaxLoopN == 3
LoopTicks == 10

MacLoop(n) ==
  << <<3, 0, 0, 0>>, <<18, 0, 0, 1>>, <<4, 0, 0, 0>>, <<5, n, 0, 1>>, <<7, 0, 0, 0>> >>

\* The controller has executed the Stop that follows the Loop of MacLoop.
LoopLeft(c) == c.MacroRun = 0 /\ c.MacroStep = Len(MacLoop(1))
MacContLoop == << <<6, 1, 0, 0>>, <<7, 0, 0, 0>> >>
MacGoSubLoop == << <<21, 1, 0, 0>>, <<7, 0, 0, 0>> >>

ModLoop(entry, n) ==
  parseTFMX(MdatFile(<< Row(0, Idle), Meta(0, 0, 0) >>, << PatHold >>,
            IF entry = "note" THEN << MacLoop(n) >>
            ELSE IF entry = "cont" THEN << MacContLoop, MacLoop(n) >>
            ELSE << MacGoSubLoop, MacLoop(n) >>,
            << <<0, 0, 0>> >>))

\* A pattern loop: a note with wait 0, Loop n back to the note, Wait 200, End.
\* The note's macro is AddLen 1, Stop: CurrLength counts the notes played.
PatLoop(n) == << <<158, 0, 240, 0>>, <<241, n, 0, 0>>, <<243, 200, 0, 0>>, <<240, 0, 0, 0>> >>
MacCount == << <<18, 0, 0, 1>>, <<7, 0, 0, 0>> >>

\* the track has left the Loop of PatLoop and executed the Wait after it
PatLoopLeft(p) == p.PStep = Len(PatLoop(1)) - 1

ModPatLoop(n) ==
  parseTFMX(MdatFile(<< Row(0, Idle), Meta(0, 0, 0) >>, << PatLoop(n) >>,
            << MacCount >>, << <<0, 0, 0>> >>))

\* the notes the controller has played since allOff left CurrLength = 1
NotesPlayed(c) == c.CurrLength - 1

\* DMAoff, SetBegin, SetLen 8, AddVolume 16, AddNote, DMAon with param A = a,
\* Vibrato (time 4, width 8), Stop
MacEfx(a) == << <<0, 0, 0, 0>>, <<2, 0, 0, 16>>, <<3, 0, 0, 8>>, <<13, 0, 0, 16>>,
                <<8, 0, 0, 0>>, <<1, a, 0, 0>>, <<12, 4, 0, 8>>, <<7, 0, 0, 0>> >>

ModEfx(a) ==
  parseTFMX(MdatFile(<< Row(0, Idle), Meta(0, 0, 0) >>, << PatHold >>,
            << MacEfx(a) >>, << <<0, 0, 0>> >>))

\* param A of DMAon: 0, positive, and the two ends of 0x80..0xFF
EfxParams == {0, 1, 128, 255}

InitLoop ==
  /\ data \in {ModLoop(e, n) : e \in {"note", "cont", "gosub"}, n \in 1..MaxLoopN}
             \cup {ModPatLoop(n) : n \in 1..MaxLoopN}
             \cup {ModEfx(a) : a \in EfxParams}
  /\ cfg \in {CfgDefault, CfgHacks}
  /\ Constructed
  /\ mdat = NoFile
  /\ tables = NotParsed

\* TFMXAudio.play(0)
LoopPlay ==
  /\ lastOp = "new"
  /\ Commit(play(data, Cur, 0), play(data, RefCur, 0), "play")
  /\ paused' = FALSE
  /\ nstarts' = nstarts + 1

\* TFMXPlayer.tfmxIrqIn()
LoopTick ==
  /\ Running
  /\ lastOp # "new"
  /\ nticks < LoopTicks
  /\ Commit(OpTick(data, cfg, Cur), OpTick(data, RefCfg, RefCur), "tick")
  /\ UNCHANGED <<paused, nstarts>>

NextLoop == LoopPlay \/ LoopTick

SpecLoop == InitLoop /\ [][NextLoop]_vars

-----------------------------------------------------------------------------
(* A macro that sets the period with SetPeriod: every PeriodStride-th of    *)
(* the 16-bit values, and the values around the first whose product with    *)
(* the output rate needs more than 31 bits.                                 *)

PeriodStride == 1024
PeriodTicks == 4

\* SetPeriod per, AddVolume 16, Stop
MacPeriod(per) == << <<23, 0, per \div 256, per % 256>>, <<13, 0, 0, 16>>, <<7, 0, 0, 0>> >>

ModPeriod(per) ==
  parseTFMX(MdatFile(<< Row(0, Idle), Meta(0, 0, 0) >>, << PatHold >>,
            << MacPeriod(per) >>, << <<0, 0, 0>> >>))

\* (2^31 - 1) \div 44100 = 48695 is the last period whose product with
\* 44100 is below 2^31
Periods ==
  {k * PeriodStride : k \in 0..(65535 \div PeriodStride)}
    \cup {1, 428, 2147483647 \div 44100, 2147483647 \div 44100 + 1, 65535}

InitPeriod ==
  /\ data \in {ModPeriod(per) : per \in Periods}
  /\ cfg = CfgDefault
  /\ Constructed
  /\ mdat = NoFile
  /\ tables = NotParsed

\* TFMXAudio.play(0)
PeriodPlay ==
  /\ lastOp = "new"
  /\ Commit(play(data, Cur, 0), play(data, RefCur, 0), "play")
  /\ paused' = FALSE
  /\ nstarts' = nstarts + 1

\* TFMXPlayer.tfmxIrqIn()
PeriodTick ==
  /\ Running
  /\ lastOp # "new"
  /\ nticks < PeriodTicks
  /\ Commit(OpTick(data, cfg, Cur), OpTick(data, RefCfg, RefCur), "tick")
  /\ UNCHANGED <<paused, nstarts>>

NextPeriod == PeriodPlay \/ PeriodTick

SpecPeriod == InitPeriod /\ [][NextPeriod]_vars

-----------------------------------------------------------------------------
(* A portamento armed by a portamento note of the pattern or by macro       *)
(* opcode 0x0B, with reset 0, 1 or 2, sliding up or down, under ticks. The  *)
(* ticks are weakly fair: the timer interrupt keeps coming while the song   *)
(* plays.                                                                   *)

PortaTicks == 12
PortaResets == 2

\* AddNote 0, AddVolume 16, Stop
MacNote == << <<8, 0, 0, 0>>, <<13, 0, 0, 16>>, <<7, 0, 0, 0>> >>

\* note from with wait 1, portamento note to, a wait longer than any run here
PatPorta(from, to, reset, rate) ==
  << <<128 + from, 0, 240, 1>>, <<192 + to, reset, 240, rate>>,
     <<243, 200, 0, 0>>, <<240, 0, 0, 0>> >>

\* AddNote 0, Portamento, SetNote to, AddVolume 16, Stop
MacPorta(to, reset, rate) ==
  << <<8, 0, 0, 0>>, <<11, reset, rate \div 256, rate % 256>>, <<9, to, 0, 0>>,
     <<13, 0, 0, 16>>, <<7, 0, 0, 0>> >>

ModPatPorta(from, to, reset, rate) ==
  parseTFMX(MdatFile(<< Row(0, Idle), Meta(0, 0, 0) >>,
            << PatPorta(from, to, reset, rate) >>, << MacNote >>, << <<0, 0, 0>> >>))

ModMacPorta(to, reset, rate) ==
  parseTFMX(MdatFile(<< Row(0, Idle), Meta(0, 0, 0) >>, << PatHold >>,
            << MacPorta(to, reset, rate) >>, << <<0, 0, 0>> >>))

\* the slides: notes 36 and 30 have the periods 214 and 303
Slides == {<<36, 30>>, <<30, 36>>}

\* the rates: 32 ends either slide within four steps; 1 is the smallest
\* (214 * 257 is below 215 * 256); 65504 is -32 as the 16-bit rate of 0x0B
PortaRates == [fast |-> 32, slow |-> 1, back |-> 65504]

InitPorta ==
  /\ data \in {ModPatPorta(sl[1], sl[2], reset, PortaRates.fast) :
                 sl \in Slides, reset \in 0..PortaResets}
             \cup {ModPatPorta(36, 30, reset, PortaRates.slow) : reset \in 1..PortaResets}
             \cup {ModMacPorta(to, reset, PortaRates.fast) :
                     to \in {24, 36}, reset \in 0..PortaResets}
             \cup {ModMacPorta(24, reset, PortaRates.back) : reset \in 1..PortaResets}
  /\ cfg = CfgDefault
  /\ Constructed
  /\ mdat = NoFile
  /\ tables = NotParsed

\* TFMXAudio.play(0)
PortaPlay ==
  /\ lastOp = "new"
  /\ Commit(play(data, Cur, 0), play(data, RefCur, 0), "play")
  /\ paused' = FALSE
  /\ nstarts' = nstarts + 1

\* TFMXPlayer.tfmxIrqIn()
PortaTick ==
  /\ Running
  /\ lastOp # "new"
  /\ nticks < PortaTicks
  /\ Commit(OpTick(data, cfg, Cur), OpTick(data, RefCfg, RefCur), "tick")
  /\ UNCHANGED <<paused, nstarts>>

NextPorta == PortaPlay \/ PortaTick

\* play() as the step counters show it
Played == lastOp = "new" /\ lastOp' = "play"

\* a tick as the step counters show it: the guard of PortaTick and its count
Ticked == Running /\ lastOp # "new" /\ nticks < PortaTicks /\ nticks' = nticks + 1

SpecPorta == InitPorta /\ [][NextPorta]_vars /\ WF_lastOp(Played) /\ WF_nticks(Ticked)

-----------------------------------------------------------------------------
(* A pattern that locks a controller for T ticks with the Lock command,     *)
(* offers a note at once and another one W + 1 ticks later, under ticks.    *)

MaxLockT == 3
LockTicks == MaxLockT + 5

\* the notes offered while locked and later
LockedNote == 30
LaterNote == 31

\* Lock flag on controller ch for T, note, Wait W, note, a long wait
PatLock(flag, ch, T, W) ==
  << <<252, flag, ch, T>>, <<LockedNote, 0, 240 + ch, 0>>, <<243, W, 0, 0>>,
     <<LaterNote, 0, 240 + ch, 0>>, <<243, 200, 0, 0>>, <<240, 0, 0, 0>> >>

ModLock(m) ==
  parseTFMX(MdatFile(<< Row(0, Idle), Meta(0, 0, 0) >>,
            << PatLock(m.flag, m.ch, m.T, m.W) >>, << MacNote >>, << <<0, 0, 0>> >>))

\* the second note comes in the tick before the lock expires, or in the tick
\* in which it expires
Locks ==
  [flag : {1, 128}, ch : {0, 1}, T : 0..MaxLockT, W : 0..(MaxLockT + 1)]

LockCases == {m \in Locks : m.W \in {m.T, m.T + 1}}

InitLock ==
  /\ data \in {ModLock(m) : m \in LockCases}
  /\ cfg = CfgDefault
  /\ Constructed
  /\ mdat = NoFile
  /\ tables = NotParsed

\* TFMXAudio.play(0)
LockPlay ==
  /\ lastOp = "new"
  /\ Commit(play(data, Cur, 0), play(data, RefCur, 0), "play")
  /\ paused' = FALSE
  /\ nstarts' = nstarts + 1

\* TFMXPlayer.tfmxIrqIn()
LockTick ==
  /\ Running
  /\ lastOp # "new"
  /\ nticks < LockTicks
  /\ Commit(OpTick(data, cfg, Cur), OpTick(data, RefCfg, RefCur), "tick")
  /\ UNCHANGED <<paused, nstarts>>

NextLock == LockPlay \/ LockTick

SpecLock == InitLock /\ [][NextLock]_vars

-----------------------------------------------------------------------------
(* The audio callback alone, on a song that holds one note for the whole    *)
(* run (its macro starts no sample), with tempos that make a burst shorter  *)
(* or longer than the 4096 samples of a callback, at three output rates.    *)

AudioCalls == 5

\* the speed row's tempo values: 21 and 26 give bursts above 4096 samples
\* at 44100 Hz (and products eClocks * (outRate >> 1) below 2^31 at rates up
\* to 48000), the others bursts of 900 to 3500
Tempos == {0, 21, 26, 32, 64, 128}

ModTempo(bpm) ==
  parseTFMX(MdatFile(<< Meta(2, 0, bpm), Row(0, Idle), Meta(0, 0, 0) >>,
            << PatHold >>, << MacNote >>, << <<0, 1, 0>> >>))

\* the rates the AudioContext may run at
OutRates == {DEFAULT_OUT_RATE, 48000, 32000}

InitAudio ==
  /\ data \in {ModTempo(bpm) : bpm \in Tempos}
  /\ cfg \in {[CfgDefault EXCEPT !.outRate = r] : r \in OutRates}
  /\ Constructed
  /\ mdat = NoFile
  /\ tables = NotParsed

\* TFMXAudio.play(0)
AudioPlay ==
  /\ lastOp = "new"
  /\ Commit(play(data, Cur, 0), play(data, RefCur, 0), "play")
  /\ paused' = FALSE
  /\ nstarts' = nstarts + 1

\* the onaudioprocess callback
AudioCall ==
  /\ Running
  /\ lastOp # "new"
  /\ burst.fed < AudioCalls * ScriptBufferSize
  /\ Commit(audioProcess(data, cfg, Cur, paused),
            audioProcess(data, RefCfg, RefCur, paused), "audioProcess")
  /\ UNCHANGED <<paused, nstarts>>

NextAudio == AudioPlay \/ AudioCall

SpecAudio == InitAudio /\ [][NextAudio]_vars

-----------------------------------------------------------------------------
(* Properties *)

\* C1: no tick raises an exception, whatever the module holds (a 0xFE silence
\* request naming channel 8 or more included): no operation so far has ended
\* by a JavaScript exception.
C1_NoTickThrows == ~thrown

\* C2: every tick terminates, also when a macro program counter or a pattern
\* cursor runs past the end of the words: no tick enters a loop it never
\* leaves.
C2_TickReturns == ~hung

\* C3: a tick() on a disabled player (PlayerEnable = 0) leaves the master
\* block, the pattern block, all controllers, all hardware channels, the
\* signal register and the tempo registers unchanged.
C3_DisabledTickNoOp ==
  [][(mdb.PlayerEnable = 0 /\ lastOp' = "tick")
       => UNCHANGED <<mdb, pdb, cdb, hdb, idb, multimode, eClocks, loops>>]_vars

\* a tick was performed on a player that a song's stop row had disabled
C3_Witness ==
  /\ lastOp = "tick"
  /\ wasOff
  /\ ~paused
  /\ nstarts > 0
  /\ mdb.PlayerEnable = 0

\* C5: mute neutrality: after the same operations, the trackstep position,
\* the speed counter and the master volume of playback with muted tracks are
\* those of unmuted playback of the same module (compared while neither
\* engine has failed).
C5_MuteNeutral ==
  (ref.ok /\ ~thrown /\ ~hung /\ ~cutoff)
    => /\ pdb.CurrPos = ref.s.pdb.CurrPos
       /\ mdb.SpeedCnt = ref.s.mdb.SpeedCnt
       /\ mdb.MasterVol = ref.s.mdb.MasterVol

\* C6: after every tick() and every start_song the master volume is in
\* [0, 64], whatever fade commands the module issues.
C6_MasterVolRange == mdb.MasterVol \in 0..64

\* C7: after every tick(), every controller's CurVol is in [0, 64].
C7_CurVolRange == \A c \in 0..15 : cdb[c].CurVol \in 0..64

\* C8: in every reachable state every hardware channel's slen is at least 2.
C8_SlenAtLeast2 == \A h \in 0..7 : hdb[h].slen >= 2

\* C9: in every reachable state every hardware channel's mode uses only the
\* bits 0..2 (its value is in 0..7).
C9_ModeBits == \A h \in 0..7 : hdb[h].mode \in 0..7

\* a channel with all three bits set: started by DMAon, armed by the mixer,
\* marked one-shot by DMAoff
C9_Witness == \E h \in 0..7 : hdb[h].mode = 7

\* C10: whenever the effects processor stored a controller's CurPeriod
\* through vibrato or portamento, the stored CurPeriod is in 0..0x7FF.
C10_EffectPeriod11Bits ==
  \A c \in 0..15 : efxPer[c] # "none" => cdb[c].CurPeriod \in 0..2047

\* C11: every time the macro interpreter fetches an instruction, the index
\* MacroPtr + MacroStep is within [0, editbuf.length), for any macro program
\* (macros that never Stop included).
C11_MacroFetchInWords == ~macroFetchOut

\* C12: every entry of the patterns table and of the macros table that
\* parseTFMX returns is a word index in [0, editbuf.length): an entry whose
\* file offset is below 0x200, misaligned or beyond the words is not stored.
C12_TableEntriesInWords ==
  /\ \A i \in 1..Len(tables.patterns) : tables.patterns[i] \in 0..(tables.len - 1)
  /\ \A i \in 1..Len(tables.macros) : tables.macros[i] \in 0..(tables.len - 1)

\* C13: over the ticks of the audio callback since play, while no burst hit
\* the clamp, the sum of the burst lengths nb is within 1 of
\* floor(sum(eClocks * (outRate >> 1)) / 357955), the difference being the
\* remainder carried in eRem, which stays in [0, 357955].
C13_BurstSum ==
  ~burst.clamped =>
    /\ eRem \in 0..357955
    /\ (burst.nb - burst.q) * 357955 + eRem = burst.r
    /\ burst.nb - (burst.q + burst.r \div 357955) \in {-1, 0, 1}

\* bursts were mixed and a carry has been taken out of the remainder
C13_Witness == lastOp = "audioProcess" /\ ~burst.clamped /\ burst.nb > burst.q

\* C14: a fade to destination 0 with speed 2 started at master volume 64
\* takes one volume step every 2 ticks: k ticks after the tick that started
\* it the master volume is 64 - k/2 and the fade is still running, and after
\* exactly 128 ticks the master volume is 0 and FadeSlope is 0.  (In
\* SpecFade the first tick starts the fade.)
C14_FadeTakes128Ticks ==
  (nticks - 1) \in 0..128 =>
    /\ mdb.MasterVol = 64 - ((nticks - 1) \div 2)
    /\ mdb.FadeSlope = (IF nticks - 1 < 128 THEN -1 ELSE 0)

\* the track cursors q hold the assignments of the trackstep line l
HoldsRow(q, l) ==
  \A i \in 0..7 :
    /\ q[i].PNum = (l[i] \div 256) % 256
    /\ q[i].PXpose = toS8(l[i] % 256)
    /\ q[i].PNum < 128 =>
         /\ q[i].PAddr = PatternAt(data, q[i].PNum)
         /\ q[i].PStep = 0
         /\ q[i].PWait = 0

C16_Delta428 ==
  (lastOp = "doMacro" /\ cdb[0].CurPeriod = 428 /\ cfg.outRate = 44100)
    => hdb[0].delta \in 3109348..3109350

\* C16 amended: with CurPeriod = 428 and outRate = 44100 the hardware
\* channel's delta after the macro pass is
\* floor((3579545 << 9) / ((428 * 44100) >> 5)) = 3107.
C16_Delta428Is3107 ==
  (lastOp = "doMacro" /\ cdb[0].CurPeriod = 428 /\ cfg.outRate = 44100)
    => hdb[0].delta = 3107

\* the macro pass has run on a controller with period 428
C16_Witness ==
  lastOp = "doMacro" /\ cdb[0].CurPeriod = 428 /\ cfg.outRate = 44100

\* C17: a burst in 4-voice mode mixes exactly the channels 0 and 3 into the
\* left buffer and 1 and 2 into the right; a burst in 8-voice mode mixes the
\* channels 4, 5, 6 and 7 into the left buffer in addition to those four.
C17_ChannelSides ==
  route.mixed =>
    /\ route.R = {1, 2}
    /\ route.L = (IF route.multi THEN {0, 3, 4, 5, 6, 7} ELSE {0, 3})

\* C18: immediately after startSong every controller is idle (MacroRun = 0)
\* and every hardware channel is off (mode = 0, vol = 0), whatever the state
\* before the call.
C18_StartSongResets ==
  (lastOp = "startSong" /\ ~thrown) =>
    \A x \in 0..7 : cdb[x].MacroRun = 0 /\ hdb[x].mode = 0 /\ hdb[x].vol = 0

\* the dispatch log of a tick that served the controllers in order and then,
\* if tracks is TRUE, called doTracks and after it only doTrack
InOrder(log, order, tracks) ==
  LET k == 1 + 2 * Len(order)
  IN /\ Len(log) >= k
     /\ \A i \in 1..Len(order) :
          log[2 * i] = <<"doMacro", order[i]>> /\ log[2 * i + 1] = <<"doEffects", order[i]>>
     /\ (Len(log) > k) = tracks
     /\ \A j \in (k + 1)..Len(log) :
          log[j][1] = (IF j = k + 1 THEN "doTracks" ELSE "doTrack")

\* C19: within one tick the macro pass and the effects are dispatched for the
\* controllers 0, 1, 2, then in 8-voice mode 4, 5, 6, 7, then 3; the track
\* sequencer is dispatched after all of them and only if a sub-song is
\* active (CurrSong >= 0), and no track before the last macro pass.
C19_DispatchOrder ==
  (dispatch # <<>> /\ ~thrown /\ ~hung /\ ~cutoff) =>
    InOrder(dispatch,
            IF dispatch[1][2] # 0 THEN <<0, 1, 2, 4, 5, 6, 7, 3>> ELSE <<0, 1, 2, 3>>,
            mdb.CurrSong >= 0)

\* a tick in 8-voice mode went through all controllers and dispatched tracks
C19_Witness ==
  /\ lastOp = "tick" /\ ~thrown /\ ~hung /\ ~cutoff
  /\ dispatch # <<>> /\ dispatch[1][2] # 0
  /\ \E j \in 1..Len(dispatch) : dispatch[j][1] = "doTrack"

\* C20: the host sets loops and then starts a sub-song.  With loops = N > 0
\* the player is disabled at the N-th execution of a loop meta-row (not
\* before, and it is disabled from then on); with loops = 0 no loop meta-row
\* disables the player; with loops < 0 the player is disabled when an End at
\* the last position takes the position back to the first.
C20_LoopsSetting ==
  (~hostLoops.started /\ nstarts > 0 /\ lastOp \in {"startSong", "tick"}
     /\ ~thrown /\ ~hung /\ ~cutoff) =>
    /\ (hostLoops.n > 0 /\ loopRows.n >= hostLoops.n) => mdb.PlayerEnable = 0
    /\ loopRows.stop => (hostLoops.n > 0 /\ loopRows.n = hostLoops.n)
    /\ (hostLoops.n < 0 /\ wrap.hit) => mdb.PlayerEnable = 0

\* C21: parse fails exactly when the first ten bytes do not start with one of
\* the recognized magics; with a recognized magic no table entry makes it fail.
C21_FailsOnMagicOnly ==
  tables.done => ((tables.error # "none") = ~ValidMagic(mdat.magic))

\* C21 as the parser has it: parse fails exactly when the magic is not
\* recognized or the file has fewer than 508 bytes (a header cut short); with
\* a recognized magic and 508 bytes or more no table entry makes it fail.
C21_FailsOnMagicOrShortFile ==
  tables.done =>
    ((tables.error # "none") = (~ValidMagic(mdat.magic) \/ mdat.byteLength < 508))

\* a file with a recognized magic and a misaligned table entry was parsed
C21_Witness ==
  /\ tables.done /\ tables.error = "none"
  /\ mdat.magic # MagicSong /\ ValidMagic(mdat.magic)
  /\ \E i \in 1..Len(mdat.words) : Int32Of(mdat.words[i]) % 4 # 0

\* C22: a tick leaves CurrPos at a lower position than it found it only if it
\* executed a loop meta-row that jumped or an End at CurrPos = LastPos (the
\* wrap to FirstPos).
C22_PosDecreasesOnlyByLoopOrWrap ==
  (lastOp = "tick" /\ pdb.CurrPos < before.pos) =>
    (wrap.hit \/ \E i \in 1..Len(steps) : steps[i].jumped)

\* a tick took the position back by a loop meta-row and no End at LastPos
C22_Witness ==
  /\ lastOp = "tick" /\ pdb.CurrPos < before.pos
  /\ ~wrap.hit /\ \E i \in 1..Len(steps) : steps[i].jumped

\* the controller a notePort command goes to
PortChannel(x) == B2(x) % (IF multimode # 0 THEN 8 ELSE 4)

\* C23: while the target controller's SfxFlag is nonzero, a notePort command
\* other than the lock command 0xFC leaves every field of that controller
\* unchanged.
C23_SfxLockDrops ==
  [][(lastOp' = "notePort" /\ B0(dispatch'[1][2]) # 252
        /\ cdb[PortChannel(dispatch'[1][2])].SfxFlag # 0)
       => cdb'[PortChannel(dispatch'[1][2])] = cdb[PortChannel(dispatch'[1][2])]]_vars

\* a note went to a controller whose SfxFlag a lock command had set
C23_Witness ==
  /\ lastOp = "notePort" /\ B0(dispatch[1][2]) = 30
  /\ cdb[PortChannel(dispatch[1][2])].SfxFlag # 0

\* C24: once the sample has wrapped N + 1 times after WaitOnDMA N (loopOn has
\* counted WaitDMACount down below 0), the channel's loop handler is the
\* default one again, and after a following tick the macro has gone on to the
\* instruction after WaitOnDMA.
C24_WaitOnDmaResumes ==
  cdb[0].WaitDMACount < 0 =>
    /\ hdb[0].loop = "off"
    /\ lastOp = "tick" => cdb[0].MacroStep > AfterWaitOnDMA

\* C25: a macro Loop with param A = n >= 1 jumps back exactly n times and
\* then falls through, when the macro was armed by a note and when it was
\* entered through Cont or GoSub: the loop's body is passed n + 1 times at
\* most, and n + 1 times once the macro has reached the Stop after the Loop.
C25_MacroLoopCount ==
  \A e \in {"note", "cont", "gosub"}, n \in 1..MaxLoopN :
    data = ModLoop(e, n) =>
      /\ cdb[0].CurrLength <= n + 1
      /\ (lastOp # "new" /\ LoopLeft(cdb[0])) => cdb[0].CurrLength = n + 1

\* C26 as stated: on each tick MacroWait is decremented, and runMacro is
\* called for a controller exactly when MacroRun # 0 and MacroWait is 0 after
\* that decrement.
C26_RunsWhenWaitIsZeroAfter ==
  \A i \in 1..Len(gates) :
    /\ gates[i].waitDec = gates[i].wait - 1
    /\ gates[i].ran <=> (gates[i].run # 0 /\ gates[i].waitDec = 0)

\* C26 amended: on each tick MacroWait is decremented, and runMacro is called
\* for a controller exactly when MacroRun # 0 and MacroWait was 0 before that
\* decrement.
C26_RunsWhenWaitWasZero ==
  \A i \in 1..Len(gates) :
    /\ gates[i].waitDec = gates[i].wait - 1
    /\ gates[i].ran <=> (gates[i].run # 0 /\ gates[i].wait = 0)

\* a tick passed over a running controller whose MacroWait was 1 and which
\* the decrement brought to 0
C26_Witness ==
  /\ lastOp = "tick"
  /\ \E i \in 1..Len(gates) :
       gates[i].run # 0 /\ gates[i].wait = 1 /\ gates[i].waitDec = 0 /\ ~gates[i].ran

\* C27: a loop meta-row executed with loops = 0 post-decrements TrackLoop:
\* from a negative value it reloads TrackLoop from the fourth halfword and
\* jumps to the third, from a positive value it jumps again, from 0 it leaves
\* TrackLoop = -1 and advances the position by one; a row with count N has
\* then jumped N + 1 times for each time it let playback pass.
C27_TrackLoopRow ==
  \A i \in 1..Len(steps) :
    (steps[i].row = "loop" /\ steps[i].loops = 0) =>
      /\ steps[i].tl < 0 =>
            steps[i].jumped /\ steps[i].tlAfter = steps[i].p3 /\ steps[i].posAfter = steps[i].p2
      /\ steps[i].tl > 0 =>
            steps[i].jumped /\ steps[i].tlAfter = steps[i].tl - 1 /\ steps[i].posAfter = steps[i].p2
      /\ steps[i].tl = 0 =>
            /\ ~steps[i].jumped /\ steps[i].tlAfter = -1
            /\ steps[i].posAfter = steps[i].pos + 1
            /\ (hostLoops.n = 0 /\ \A j \in (i + 1)..Len(steps) : steps[j].row # "loop")
                 => loopRows.jumps = (steps[i].p3 + 1) * (loopRows.n - loopRows.jumps)

\* a loop meta-row with count 1 has jumped twice and now lets playback pass
C27_Witness ==
  /\ lastOp = "tick" /\ hostLoops.n = 0
  /\ \E i \in 1..Len(steps) :
       /\ steps[i].row = "loop" /\ steps[i].loops = 0 /\ steps[i].tl = 0
       /\ steps[i].p3 = 1 /\ loopRows.jumps = 2 /\ loopRows.n = 3

\* C28: after an operation during which getTrackStep processed a stop
\* meta-row (in a tick's End command or in the initial load of startSong),
\* the player is disabled.
C28_StopRowDisables ==
  (~thrown /\ \E i \in 1..Len(steps) : steps[i].row = "stop") => mdb.PlayerEnable = 0

\* the last tick dispatched the tracks
TracksDispatched == \E j \in 1..Len(dispatch) : dispatch[j][1] = "doTrack"

\* C29: a tick with a sub-song active dispatches the tracks exactly when
\* SpeedCnt was 0 before it and then leaves SpeedCnt = Prescale, otherwise
\* it leaves SpeedCnt one less; SpeedCnt is never negative; with Prescale
\* constant at P (ModRound has no speed meta-row) the tracks are dispatched
\* on the first tick after startSong and then on every (P + 1)-th.
C29_SequencerSpeed ==
  /\ mdb.SpeedCnt >= 0
  /\ (lastOp = "tick" /\ dispatch # <<>> /\ mdb.CurrSong >= 0 /\ ~thrown /\ ~hung /\ ~cutoff) =>
       /\ TracksDispatched <=> before.speedCnt = 0
       /\ TracksDispatched => mdb.SpeedCnt = pdb.Prescale
       /\ ~TracksDispatched => mdb.SpeedCnt = before.speedCnt - 1
       /\ data = ModRound =>
            (TracksDispatched <=> (nticks - 1) % (pdb.Prescale + 1) = 0)

\* the third dispatch of a song with Prescale = 2, on its seventh tick
C29_Witness ==
  /\ lastOp = "tick" /\ data = ModRound /\ mdb.CurrSong >= 0 /\ ~thrown
  /\ pdb.Prescale = 2 /\ nticks = 7 /\ TracksDispatched /\ mdb.SpeedCnt = 2

\* C30: the first execution of a pattern Loop with param A = n >= 1 loads
\* PLoop from n, every execution with a nonzero count decrements it and jumps
\* to the target step, and the execution that finds 0 releases and stores
\* 0xFFFF: the pattern's body is repeated by exactly n jumps, n + 1 passes.
C30_PatternLoopCount ==
  \A n \in 1..MaxLoopN :
    (data = ModPatLoop(n) /\ lastOp = "tick") =>
      /\ nticks \in 2..(n + 1) => pdb.p[0].PLoop = n + 1 - nticks /\ ~PatLoopLeft(pdb.p[0])
      /\ nticks = n + 2 => pdb.p[0].PLoop = 65535 /\ PatLoopLeft(pdb.p[0])
      /\ NotesPlayed(cdb[0]) <= n + 1
      /\ PatLoopLeft(pdb.p[0]) => pdb.p[0].PLoop = 65535 /\ NotesPlayed(cdb[0]) = n + 1

\* a pattern Loop with count 3 has released after four passes of its body
C30_Witness ==
  /\ data = ModPatLoop(3) /\ lastOp = "tick"
  /\ PatLoopLeft(pdb.p[0]) /\ pdb.p[0].PLoop = 65535 /\ NotesPlayed(cdb[0]) = 4

\* the last tick passed controller x through doMacro without running its macro
MacroIdleIn(g, x) == \E i \in 1..Len(g) : g[i].cc = x /\ ~g[i].ran

\* C31: while VibReset is nonzero each effects pass decrements VibTime, and
\* when VibTime reaches zero it is reloaded from the full VibReset and
\* VibWidth is negated.  Stated for a tick in which the controller's macro
\* did not run, so that the effects pass alone changes the vibrato fields.
C31_VibratoReload ==
  [][\A x \in 0..7 :
       (/\ lastOp' = "tick" /\ ~thrown' /\ ~hung' /\ ~cutoff'
        /\ MacroIdleIn(gates', x)
        /\ cdb[x].EfxRun > 0 /\ cdb[x].VibReset # 0)
       => IF cdb[x].VibTime - 1 = 0
          THEN cdb'[x].VibTime = cdb[x].VibReset /\ cdb'[x].VibWidth = -cdb[x].VibWidth
          ELSE cdb'[x].VibTime = cdb[x].VibTime - 1 /\ cdb'[x].VibWidth = cdb[x].VibWidth]_vars

\* the pattern number in the halfword that line l gives track i
RowPNum(l, i) == (l[i] \div 256) % 256

\* C32 as stated: a pattern-assignment row that gives a track a pattern
\* number >= 0x80 changes only that track's PNum (PAddr, PStep, PWait, PLoop
\* and PXpose are left unchanged); a number < 0x80 resets the cursor.
C32_HoldRowKeepsTranspose ==
  \A k \in 1..Len(steps) : steps[k].row = "row" =>
    \A i \in 0..7 :
      IF RowPNum(steps[k].line, i) >= 128
      THEN steps[k].pAfter[i] = [steps[k].p[i] EXCEPT !.PNum = RowPNum(steps[k].line, i)]
      ELSE /\ steps[k].pAfter[i].PNum = RowPNum(steps[k].line, i)
           /\ steps[k].pAfter[i].PAddr = PatternAt(data, RowPNum(steps[k].line, i))
           /\ steps[k].pAfter[i].PStep = 0 /\ steps[k].pAfter[i].PWait = 0
           /\ steps[k].pAfter[i].PLoop = 65535

\* C32 amended: a pattern number >= 0x80 changes the track's PNum and its
\* PXpose (the halfword's low byte, signed) and leaves PAddr, PStep, PWait
\* and PLoop unchanged; a number < 0x80 resets the cursor and also stores
\* the transpose.
C32_HoldRowStoresTranspose ==
  \A k \in 1..Len(steps) : steps[k].row = "row" =>
    \A i \in 0..7 :
      /\ steps[k].pAfter[i].PXpose = toS8(steps[k].line[i] % 256)
      /\ IF RowPNum(steps[k].line, i) >= 128
         THEN steps[k].pAfter[i] = [steps[k].p[i] EXCEPT
                                      !.PNum = RowPNum(steps[k].line, i),
                                      !.PXpose = toS8(steps[k].line[i] % 256)]
         ELSE /\ steps[k].pAfter[i].PNum = RowPNum(steps[k].line, i)
              /\ steps[k].pAfter[i].PAddr = PatternAt(data, RowPNum(steps[k].line, i))
              /\ steps[k].pAfter[i].PStep = 0 /\ steps[k].pAfter[i].PWait = 0
              /\ steps[k].pAfter[i].PLoop = 65535

\* a row held a track whose cursor was in a pattern (PAddr set, PStep moved
\* on) and gave it a transpose other than the one it had
C32_Witness ==
  \E k \in 1..Len(steps) : \E i \in 0..7 :
    /\ steps[k].row = "row" /\ RowPNum(steps[k].line, i) >= 128
    /\ steps[k].p[i].PAddr # 0 /\ steps[k].p[i].PStep # 0
    /\ steps[k].pAfter[i].PXpose # steps[k].p[i].PXpose

\* C33: a channel armed by DMAon while SaveLen is 0 has a sample region of
\* 131072 bytes and is mixed: its fixed-point length slen << 14 is not
\* below the mixer's threshold, so after an audio callback that mixed the
\* channel with a volume or a delta, mixAdd has started it (mode bit 2).
C33_ZeroLenChannelMixed ==
  \A h \in 0..7 :
    (/\ lastOp = "audioProcess" /\ ~thrown /\ ~hung /\ ~cutoff
     /\ route.mixed /\ h \in route.L \cup route.R
     /\ hdb[h].mode % 2 = 1 /\ hdb[h].SampleLength = 131072
     /\ (hdb[h].vol # 0 \/ hdb[h].delta # 0))
    => /\ Shl14(hdb[h].slen) >= 65536
       /\ (hdb[h].mode \div 2) % 2 = 1

\* floor((3579545 << 9) / ((period * outRate) >> 5)) on unbounded integers;
\* the shifted product is taken in two parts, period = 32 * a + b, which
\* keeps every intermediate value below 2^31
ExactDelta(period, outRate) ==
  IF period = 0 THEN 0
  ELSE 1832727040 \div ((period \div 32) * outRate + ((period % 32) * outRate) \div 32)

\* C34: after a controller's macro pass the hardware channel's delta is
\* floor((3579545 << 9) / ((CurPeriod * outRate) >> 5)) computed without
\* overflow, and 0 for CurPeriod = 0, for every period SetPeriod can store,
\* at outRate 44100; delta is never negative or wrapped.
C34_DeltaExact ==
  (lastOp = "tick" /\ ~thrown /\ cfg.outRate = 44100
     /\ \E i \in 1..Len(gates) : gates[i].cc = 0) =>
    /\ hdb[0].delta = ExactDelta(cdb[0].CurPeriod, cfg.outRate)
    /\ hdb[0].delta >= 0 /\ hdb[0].delta <= 1832727040

\* C35: doEffects does nothing for a controller whose EfxRun is negative as
\* a signed 8-bit value (DMAon with param A in 0x80..0xFF); with EfxRun = 0
\* it only sets EfxRun to 1; effects are processed only when EfxRun > 0.
C35_EffectsGate ==
  (~thrown /\ ~hung /\ ~cutoff) =>
    \A i \in 1..Len(gates) :
      /\ toS8(gates[i].efx % 256) < 0 => gates[i].idle /\ gates[i].efxAfter = gates[i].efx
      /\ gates[i].efx = 0 => gates[i].idle /\ gates[i].efxAfter = 1
      /\ ~gates[i].idle => toS8(gates[i].efx % 256) > 0

\* C36: while a sub-song plays, FirstPos <= CurrPos <= LastPos, and every
\* trackstep line getTrackStep reads lies in that range.
C36_PosInRange ==
  (nstarts > 0 /\ mdb.CurrSong >= 0 /\ ~thrown /\ ~hung /\ ~cutoff) =>
    /\ pdb.FirstPos <= pdb.CurrPos /\ pdb.CurrPos <= pdb.LastPos
    /\ \A i \in 1..Len(steps) :
         steps[i].row # "atFirst" =>
           pdb.FirstPos <= steps[i].pos /\ steps[i].pos <= pdb.LastPos

\* the engine F holds what the variables hold
SameEngine(F) ==
  /\ mdb = F.mdb /\ pdb = F.pdb /\ cdb = F.cdb /\ hdb = F.hdb /\ idb = F.idb
  /\ multimode = F.multimode /\ eClocks = F.eClocks /\ loops = F.loops

\* C37: the engine state reached by tfmxInit and startSong(n) is the same
\* whatever was played before: it is the state a newly constructed engine
\* reaches by tfmxInit and startSong(n).
C37_RestartHistoryIndependent ==
  (lastOp = "play" /\ ~thrown /\ ~hung /\ ~cutoff) =>
    SameEngine(startSong(data, tfmxInit(NewEngine), mdb.CurrSong))

\* the portamento of controller x has ended on its destination
PortaEnded(x) ==
  cdb[x].PortaRate = 0 /\ cdb[x].PortaPer = cdb[x].DestPeriod % 2048

LockIssued == 1

\* the countdown of controller x's portamento has passed zero
PortaStalled(x) == cdb[x].PortaRate # 0 /\ cdb[x].PortaTime <= 0

\* a stalled portamento stays stalled: a tick only lowers PortaTime and
\* leaves the rate and the period as they are (so what C38's counterexample
\* shows up to PortaTicks goes on after them)
PortaStallStays ==
  [][\A x \in 0..7 :
       (PortaStalled(x) /\ lastOp' = "tick") =>
         /\ cdb'[x].PortaTime = cdb[x].PortaTime - 1
         /\ cdb'[x].PortaRate = cdb[x].PortaRate
         /\ cdb'[x].PortaPer = cdb[x].PortaPer]_vars

\* C39: an SFX lock always expires: T + 2 ticks of the enabled player after
\* a Lock command with lock-time T the controller's SfxFlag is 0 again, and
\* a note offered from then on is accepted.
C39_SfxLockExpires ==
  \A m \in LockCases :
    (data = ModLock(m) /\ mdb.PlayerEnable # 0) =>
      /\ nticks >= LockIssued + m.T + 2 => cdb[m.ch].SfxFlag = 0
      /\ (nticks >= LockIssued + m.W + 1 /\ m.W = m.T + 1) =>
           cdb[m.ch].CurrNote = LaterNote

\* the lock with the longest time has expired in the tick of the second note
C39_Witness ==
  \E m \in LockCases :
    /\ data = ModLock(m) /\ m.T = MaxLockT /\ m.W = m.T + 1
    /\ nticks = LockIssued + m.T + 2
    /\ cdb[m.ch].SfxFlag = 0 /\ cdb[m.ch].SfxLockTime = -1
    /\ cdb[m.ch].CurrNote = LaterNote

\* C40: burst hand-off across audio callbacks loses and duplicates nothing:
\* every callback writes ScriptBufferSize samples, and while the player
\* stays enabled a callback writes exactly the
\* ScriptBufferSize samples that follow, in the order the bursts were mixed,
\* those written before it; the samples mixed and not yet written are the
\* blockDone samples at the front of the mix buffer, which the next callback
\* writes first; and no tick runs while samples are pending.
C40_BurstHandOff ==
  /\ (lastOp = "audioProcess" /\ ~thrown /\ ~hung /\ ~cutoff) =>
       RunsLen(burst.out) = ScriptBufferSize
  /\ (lastOp = "audioProcess" /\ ~wasOff /\ mdb.PlayerEnable # 0
       /\ ~thrown /\ ~hung /\ ~cutoff) =>
    /\ burst.out = << <<burst.fed - ScriptBufferSize, ScriptBufferSize>> >>
    /\ burst.fed + blockDone = burst.nb
    /\ TakeRuns(burst.mix, blockDone) =
         (IF blockDone = 0 THEN <<>> ELSE << <<burst.fed, blockDone>> >>)
    /\ ~burst.early

\* a third callback has been served, it began with the tail of a burst the
\* callback before it left, and leaves a tail itself
C40_Witness ==
  /\ lastOp = "audioProcess" /\ mdb.PlayerEnable # 0 /\ ~thrown
  /\ burst.fed = 3 * ScriptBufferSize
  /\ blockDone > 0
  /\ burst.nb > burst.fed
  /\ burst.out = << <<2 * ScriptBufferSize, ScriptBufferSize>> >>

====
